---- MODULE Spec2Model ----
(***************************************************************************)
(* Model of the Beeline reconciliation engine (src/reconciliation.py) and   *)
(* of the line aggregation it calls (src/excel_processor.py).               *)
(*                                                                          *)
(* Conventions of the model                                                 *)
(*  - a string whose characters matter (order numbers, supplier names) is   *)
(*    a sequence of one-character strings; None is the tuple <<"None">>,    *)
(*    which no character sequence equals;                                   *)
(*  - a float is an exact rational [n |-> numerator, d |-> denominator > 0] *)
(*    in lowest terms (binary rounding of floats is not modelled);          *)
(*  - a date is a day number >= 0, the absent date is NoDate;               *)
(*  - a Python dict whose iteration order matters is a sequence of entries  *)
(*    in insertion order.                                                   *)
(***************************************************************************)
EXTENDS Integers, Sequences, FiniteSets, TLC

(***************************************************************************)
(* Bounds of the model                                                      *)
(***************************************************************************)
MaxInvoices == 2
MaxLines == 2
MaxRuns == 3
MaxAmountTens == 15

(***************************************************************************)
(* Rationals                                                                *)
(***************************************************************************)
Abs(x) == IF x < 0 THEN -x ELSE x

RECURSIVE Gcd(_, _)
Gcd(a, b) == IF b = 0 THEN a ELSE Gcd(b, a % b)

Rat(n, d) ==
    LET s == IF d < 0 THEN -1 ELSE 1
        g == Gcd(Abs(n), Abs(d))
    IN  [n |-> (s * n) \div g, d |-> (s * d) \div g]

RInt(k) == [n |-> k, d |-> 1]
RAdd(x, y) == Rat(x.n * y.d + y.n * x.d, x.d * y.d)
RSub(x, y) == Rat(x.n * y.d - y.n * x.d, x.d * y.d)
RMul(x, y) == Rat(x.n * y.n, x.d * y.d)
RDiv(x, y) == Rat(x.n * y.d, x.d * y.n)
RLe(x, y) == x.n * y.d <= y.n * x.d
RLt(x, y) == x.n * y.d < y.n * x.d
RMax(x, y) == IF RLe(x, y) THEN y ELSE x
RMin(x, y) == IF RLe(x, y) THEN x ELSE y
RAbs(x) == [n |-> Abs(x.n), d |-> x.d]

RECURSIVE Pow10(_)
Pow10(k) == IF k = 0 THEN 1 ELSE 10 * Pow10(k - 1)

\* Python's round(x, digits): to the nearest multiple of 10^-digits, a tie
\* going to the even one.
round(x, digits) ==
    LET s == Pow10(digits)
        num == x.n * s
        q == num \div x.d
        r == num % x.d
        up == \/ 2 * r > x.d
              \/ (2 * r = x.d /\ q % 2 = 1)
    IN  Rat(IF up THEN q + 1 ELSE q, s)

(***************************************************************************)
(* Strings                                                                  *)
(***************************************************************************)
None == <<"None">>
NoDate == -1

Digits == {"0", "1", "2", "3", "4", "5", "6", "7", "8", "9"}

\* str(x): None prints as the four characters of its name.
str(x) == IF x = None THEN <<"N", "o", "n", "e">> ELSE x

\* Python truthiness of a string-or-None value.
Truthy(x) == x # None /\ x # <<>>

RECURSIVE strip(_)
strip(s) ==
    IF s = <<>> THEN s
    ELSE IF Head(s) = " " THEN strip(Tail(s))
    ELSE IF s[Len(s)] = " " THEN strip(SubSeq(s, 1, Len(s) - 1))
    ELSE s

lower_char(c) ==
    CASE c = "R" -> "r"
      [] c = "S" -> "s"
      [] c = "T" -> "t"
      [] c = "A" -> "a"
      [] c = "N" -> "n"
      [] c = "D" -> "d"
      [] OTHER -> c

lower(s) == [i \in 1..Len(s) |-> lower_char(s[i])]

\* The `sub in s` test of Python on strings.
Contains(sub, s) ==
    \E i \in 1..(Len(s) - Len(sub) + 1) : SubSeq(s, i, i + Len(sub) - 1) = sub

\* re.sub(r'[^\d]', '', s)
RECURSIVE KeepDigits(_)
KeepDigits(s) ==
    IF s = <<>> THEN <<>>
    ELSE IF Head(s) \in Digits THEN <<Head(s)>> \o KeepDigits(Tail(s))
    ELSE KeepDigits(Tail(s))

MinOrderLen == 8
MaxOrderLen == 12

clean_order_number(order_number) ==
    IF ~Truthy(order_number) THEN None
    ELSE LET clean_order == KeepDigits(strip(str(order_number)))
         IN  IF MinOrderLen <= Len(clean_order) /\ Len(clean_order) <= MaxOrderLen
             THEN clean_order
             ELSE None

\* s.endswith(suffix)
endswith(s, suffix) ==
    Len(s) >= Len(suffix) /\ SubSeq(s, Len(s) - Len(suffix) + 1, Len(s)) = suffix

\* normalize_order_number of the page streamlit_app, on a string.
MinPageOrderLen == 8
normalize_order_number(order_number) ==
    LET order_str == strip(order_number)
        without_dot_zero ==
            IF endswith(order_str, <<".", "0">>)
            THEN SubSeq(order_str, 1, Len(order_str) - 2)
            ELSE order_str
        order_clean == KeepDigits(without_dot_zero)
    IN  IF Len(order_clean) >= MinPageOrderLen THEN order_clean ELSE <<>>

(***************************************************************************)
(* difflib.SequenceMatcher(None, a, b).ratio() for strings shorter than the *)
(* 200 characters at which difflib starts to discard popular characters.    *)
(***************************************************************************)
RECURSIVE RunLen(_, _, _, _, _, _)
RunLen(a, i, ahi, b, j, bhi) ==
    IF i > ahi \/ j > bhi \/ a[i] # b[j] THEN 0
    ELSE 1 + RunLen(a, i + 1, ahi, b, j + 1, bhi)

\* find_longest_match: the longest common block of a[alo..ahi], b[blo..bhi];
\* of several longest ones, the one starting earliest in a, then in b.
find_longest_match(a, alo, ahi, b, blo, bhi) ==
    LET Pairs == (alo..ahi) \X (blo..bhi)
        size(p) == RunLen(a, p[1], ahi, b, p[2], bhi)
        best == IF Pairs = {} THEN 0
                ELSE CHOOSE k \in 0..(ahi - alo + 1) :
                        /\ \A p \in Pairs : size(p) <= k
                        /\ (k > 0 => \E p \in Pairs : size(p) = k)
                        /\ (k = 0 => \A p \in Pairs : size(p) = 0)
    IN  IF best = 0 THEN <<alo, blo, 0>>
        ELSE LET Best == {p \in Pairs : size(p) = best}
                 i == CHOOSE x \in {p[1] : p \in Best} :
                        \A y \in {p[1] : p \in Best} : x <= y
                 j == CHOOSE x \in {p[2] : p \in {q \in Best : q[1] = i}} :
                        \A y \in {p[2] : p \in {q \in Best : q[1] = i}} : x <= y
             IN  <<i, j, best>>

RECURSIVE matching_size(_, _, _, _, _, _)
matching_size(a, alo, ahi, b, blo, bhi) ==
    IF alo > ahi \/ blo > bhi THEN 0
    ELSE LET m == find_longest_match(a, alo, ahi, b, blo, bhi)
         IN  IF m[3] = 0 THEN 0
             ELSE m[3]
                  + matching_size(a, alo, m[1] - 1, b, blo, m[2] - 1)
                  + matching_size(a, m[1] + m[3], ahi, b, m[2] + m[3], bhi)

calculate_string_similarity(str1, str2) ==
    IF str1 = <<>> \/ str2 = <<>> THEN RInt(0)
    ELSE LET a == lower(str1)
             b == lower(str2)
         IN  Rat(2 * matching_size(a, 1, Len(a), b, 1, Len(b)), Len(a) + Len(b))

\* calculate_amount_confidence without the factor 2.
calculate_amount_confidence_single(amount1, amount2) ==
    IF amount1 = 0 /\ amount2 = 0 THEN RInt(1)
    ELSE IF amount1 = 0 \/ amount2 = 0 THEN RInt(0)
    ELSE LET max_amount == IF amount1 >= amount2 THEN amount1 ELSE amount2
             difference == Abs(amount1 - amount2)
         IN  RMax(RInt(0), RSub(RInt(1), Rat(difference, max_amount)))

\* calculate_amount_confidence relative to the smaller amount.
calculate_amount_confidence_min(amount1, amount2) ==
    IF amount1 = 0 /\ amount2 = 0 THEN RInt(1)
    ELSE IF amount1 = 0 \/ amount2 = 0 THEN RInt(0)
    ELSE LET min_amount == IF amount1 <= amount2 THEN amount1 ELSE amount2
             difference == Abs(amount1 - amount2)
         IN  RMax(RInt(0),
                  RSub(RInt(1), RMul(Rat(difference, min_amount), RInt(2))))

calculate_amount_confidence(amount1, amount2) ==
    IF amount1 = 0 /\ amount2 = 0 THEN RInt(1)
    ELSE IF amount1 = 0 \/ amount2 = 0 THEN RInt(0)
    ELSE LET max_amount == IF amount1 >= amount2 THEN amount1 ELSE amount2
             difference == Abs(amount1 - amount2)
         IN  IF difference = 0 THEN RInt(1)
             ELSE RMax(RInt(0),
                       RSub(RInt(1), RMul(Rat(difference, max_amount), RInt(2))))

(***************************************************************************)
(* ReconciliationEngine.__init__: the default config and the statistics     *)
(***************************************************************************)
DateToleranceDays == 30

\* amount_weights and enable_machine_learning are never read by the engine.
DefaultConfig ==
    [k \in {"tolerance", "method", "fuzzy_threshold", "date_tolerance_days",
            "min_confidence"} |->
        CASE k = "tolerance" -> Rat(1, 100)
          [] k = "method" -> "intelligent"
          [] k = "fuzzy_threshold" -> Rat(8, 10)
          [] k = "date_tolerance_days" -> DateToleranceDays
          [] k = "min_confidence" -> Rat(7, 10)]

InitialStats ==
    [total_pdfs |-> 0, total_excel_orders |-> 0, perfect_matches |-> 0,
     discrepancies |-> 0, unmatched_pdf |-> 0, unmatched_excel |-> 0,
     method_performance |-> <<>>]

\* dict.update: the keys of `other` replace or extend those of `d`.
update(d, other) ==
    [k \in (DOMAIN d) \cup (DOMAIN other) |->
        IF k \in DOMAIN other THEN other[k] ELSE d[k]]

\* perform_reconciliation, `if config: self.config.update(config)`; a call
\* without config passes None, modelled by the empty dict (both are falsy).
NoConfig == <<>>
effective_config(current, override) ==
    IF override = NoConfig THEN current ELSE update(current, override)

(***************************************************************************)
(* prepare_pdf_data                                                         *)
(***************************************************************************)
\* parse_amount of a number: `if not amount: return 0.0`, else float(amount).
parse_amount(amount) == IF amount = 0 THEN 0 ELSE amount

\* s.replace(old, new) for one character; new is a string, possibly empty.
RECURSIVE replace(_, _, _)
replace(s, old, new) ==
    IF s = <<>> THEN <<>>
    ELSE (IF Head(s) = old THEN new ELSE <<Head(s)>>) \o replace(Tail(s), old, new)

\* re.sub of every character outside `kept` by nothing.
RECURSIVE KeepChars(_, _)
KeepChars(s, kept) ==
    IF s = <<>> THEN <<>>
    ELSE (IF Head(s) \in kept THEN <<Head(s)>> ELSE <<>>) \o KeepChars(Tail(s), kept)

\* s.rfind(c), counted from 1: 0 when c does not occur.
RECURSIVE rfind(_, _)
rfind(s, c) ==
    IF s = <<>> THEN 0
    ELSE IF s[Len(s)] = c THEN Len(s)
    ELSE rfind(SubSeq(s, 1, Len(s) - 1), c)

digit_value(c) ==
    CASE c = "0" -> 0 [] c = "1" -> 1 [] c = "2" -> 2 [] c = "3" -> 3
      [] c = "4" -> 4 [] c = "5" -> 5 [] c = "6" -> 6 [] c = "7" -> 7
      [] c = "8" -> 8 [] c = "9" -> 9

RECURSIVE int(_)
int(digits) ==
    IF digits = <<>> THEN 0
    ELSE 10 * int(SubSeq(digits, 1, Len(digits) - 1)) + digit_value(digits[Len(digits)])

\* Whether float(s) accepts a string of digits, '.', ',' and '-': an optional
\* sign, at least one digit, at most one point and nothing else.
float_accepts(s) ==
    LET body == IF s # <<>> /\ Head(s) = "-" THEN Tail(s) ELSE s
    IN  /\ \A i \in 1..Len(body) : body[i] \in Digits \cup {"."}
        /\ Len(KeepChars(body, {"."})) <= 1
        /\ KeepDigits(body) # <<>>

\* float(s) of an accepted string, as an exact fraction.
float(s) ==
    LET negative == Head(s) = "-"
        point == rfind(s, ".")
        decimals == IF point = 0 THEN 0 ELSE Len(s) - point
        magnitude == int(KeepDigits(s))
    IN  Rat(IF negative THEN -magnitude ELSE magnitude, Pow10(decimals))

\* `try: return float(s)`, `except (ValueError, TypeError): return 0.0`
float_or_zero(s) == IF float_accepts(s) THEN float(s) ELSE RInt(0)

\* parse_amount of the engine on a string.
parse_amount_str(amount) ==
    IF amount = <<>> THEN RInt(0)
    ELSE LET amount_str == replace(replace(amount, ",", <<".">>), " ", <<>>)
             amount_clean == KeepChars(amount_str, Digits \cup {".", "-"})
         IN  IF amount_clean = <<>> THEN RInt(0) ELSE float_or_zero(amount_clean)

\* The number of characters after the last comma that makes a lone comma a
\* decimal separator: exactly this many in PDFExtractor.parse_amount, at most
\* this many in clean_amount_column.
DecimalPlaces == 2

\* The branch both parsers of the extraction share: with ',' and '.' present,
\* the later one is the decimal separator.
both_separators(s) ==
    IF rfind(s, ",") > rfind(s, ".")
    THEN replace(replace(s, ".", <<>>), ",", <<".">>)
    ELSE replace(s, ",", <<>>)

\* PDFExtractor.parse_amount on a string.
PDFExtractor_parse_amount(amount_str) ==
    LET clean_str == strip(KeepChars(amount_str, Digits \cup {".", ",", "-"}))
        comma == rfind(clean_str, ",")
        separated ==
            IF comma > 0 /\ rfind(clean_str, ".") > 0 THEN both_separators(clean_str)
            ELSE IF comma > 0
                 THEN IF Len(clean_str) - comma = DecimalPlaces
                      THEN replace(clean_str, ",", <<".">>)
                      ELSE replace(clean_str, ",", <<>>)
                 ELSE clean_str
    IN  IF amount_str = <<>> \/ clean_str = <<>> THEN RInt(0)
        ELSE float_or_zero(separated)

\* The parse_amount that clean_amount_column applies to each cell, on a string.
clean_amount_column(val) ==
    LET cleaned == KeepChars(strip(val), Digits \cup {",", ".", "-"})
        comma == rfind(cleaned, ",")
        separated ==
            IF comma > 0 /\ rfind(cleaned, ".") > 0 THEN both_separators(cleaned)
            ELSE IF comma > 0
                 THEN IF Len(cleaned) - comma <= DecimalPlaces
                      THEN replace(cleaned, ",", <<".">>)
                      ELSE replace(cleaned, ",", <<>>)
                 ELSE cleaned
    IN  IF cleaned = <<>> \/ cleaned \in {<<"-">>, <<".">>, <<",">>} THEN RInt(0)
        ELSE float_or_zero(separated)

\* parse_date: a day number stands for a date written in one of the four
\* accepted formats, BadDate for any other text, NoDate for a missing one.
BadDate == -2
parse_date(date_value) == IF date_value < 0 THEN NoDate ELSE date_value

Randstad == <<"R", "a", "n", "d", "s", "t", "a", "d">>
SelectTT == <<"S", "e", "l", "e", "c", "t", " ", "T", ".", "T", ".">>

clean_supplier_name(supplier) ==
    IF supplier = <<>> THEN <<>>
    ELSE LET cleaned == lower(strip(supplier))
         IN  IF Contains(lower(Randstad), cleaned) THEN Randstad
             ELSE IF /\ Contains(<<"s", "e", "l", "e", "c", "t">>, cleaned)
                     /\ Contains(<<"t", ".", "t">>, cleaned)
                  THEN SelectTT
             ELSE strip(supplier)

\* One prepared invoice; has_attempts says whether the dict has the key
\* 'match_attempts', needs_partial_match whether it has that key (set True).
prepared_pdf(i, pdf) ==
    [index |-> i,
     filename |-> i,
     order_number |-> clean_order_number(pdf.purchase_order),
     amount |-> parse_amount(pdf.total_net),
     invoice_date |-> parse_date(pdf.invoice_date),
     supplier |-> clean_supplier_name(pdf.supplier),
     has_attempts |-> FALSE,
     match_attempts |-> <<>>,
     needs_partial_match |-> FALSE]

\* `if prepared_pdf['order_number'] and prepared_pdf['amount'] > 0`
has_sufficient_data(p) == p.order_number # None /\ p.amount > 0

RECURSIVE prepare_pdf_from(_, _)
prepare_pdf_from(pdf_data, i) ==
    IF i > Len(pdf_data) THEN <<>>
    ELSE LET pdf == pdf_data[i]
             p == prepared_pdf(i - 1, pdf)
         IN  IF ~pdf.success THEN prepare_pdf_from(pdf_data, i + 1)
             ELSE IF has_sufficient_data(p)
                  THEN <<p>> \o prepare_pdf_from(pdf_data, i + 1)
                  ELSE prepare_pdf_from(pdf_data, i + 1)

prepare_pdf_data(pdf_data) == prepare_pdf_from(pdf_data, 1)

(***************************************************************************)
(* ExcelProcessor.aggregate_by_order_number                                 *)
(***************************************************************************)
Keys(aggregated) == [i \in 1..Len(aggregated) |-> aggregated[i].key]
KeySet(aggregated) == {aggregated[i].key : i \in 1..Len(aggregated)}
IndexOfKey(aggregated, k) ==
    CHOOSE i \in 1..Len(aggregated) : aggregated[i].key = k
Get(aggregated, k) == aggregated[IndexOfKey(aggregated, k)]

InSeq(x, s) == \E i \in 1..Len(s) : s[i] = x

new_order(order_key) ==
    [key |-> order_key, order_number |-> order_key, total_amount |-> 0,
     line_count |-> 0, suppliers |-> <<>>, statement_dates |-> <<>>,
     cost_centers |-> <<>>, enriched |-> FALSE,
     billing_period_start |-> NoDate, billing_period_end |-> NoDate]

add_line(order_data, record) ==
    [order_data EXCEPT
        !.total_amount = @ + record.net_amount,
        !.line_count = @ + 1,
        !.suppliers =
            IF record.supplier # <<>> /\ ~InSeq(record.supplier, @)
            THEN Append(@, strip(record.supplier)) ELSE @,
        !.statement_dates =
            IF record.statement_date # NoDate /\ ~InSeq(record.statement_date, @)
            THEN Append(@, record.statement_date) ELSE @,
        !.cost_centers =
            IF Truthy(record.cost_center) /\ ~InSeq(record.cost_center, @)
            THEN Append(@, strip(str(record.cost_center))) ELSE @]

RECURSIVE aggregate_from(_, _, _)
aggregate_from(excel_data, i, aggregated) ==
    IF i > Len(excel_data) THEN aggregated
    ELSE LET record == excel_data[i]
             order_key == strip(str(record.order_number))
         IN  IF ~record.is_valid \/ ~Truthy(record.order_number)
             THEN aggregate_from(excel_data, i + 1, aggregated)
             ELSE IF order_key \in KeySet(aggregated)
                  THEN LET j == IndexOfKey(aggregated, order_key)
                       IN  aggregate_from(excel_data, i + 1,
                              [aggregated EXCEPT ![j] = add_line(@, record)])
                  ELSE aggregate_from(excel_data, i + 1,
                          Append(aggregated, add_line(new_order(order_key), record)))

aggregate_by_order_number(excel_data) == aggregate_from(excel_data, 1, <<>>)

(***************************************************************************)
(* prepare_excel_data                                                       *)
(***************************************************************************)
SeqMin(s) == CHOOSE x \in {s[i] : i \in 1..Len(s)} :
                \A y \in {s[i] : i \in 1..Len(s)} : x <= y
SeqMax(s) == CHOOSE x \in {s[i] : i \in 1..Len(s)} :
                \A y \in {s[i] : i \in 1..Len(s)} : x >= y

\* The body of the enrichment loop after the renaming: the billing period is
\* the only enrichment the matching reads.
enrich(order_data) ==
    LET dates == [i \in 1..Len(order_data.statement_dates) |->
                    parse_date(order_data.statement_dates[i])]
        valid_dates == SelectSeq(dates, LAMBDA d : d # NoDate)
    IN  [order_data EXCEPT
            !.enriched = TRUE,
            !.billing_period_start =
                IF valid_dates # <<>> THEN SeqMin(valid_dates) ELSE @,
            !.billing_period_end =
                IF valid_dates # <<>> THEN SeqMax(valid_dates) ELSE @]

RemoveAt(s, i) == SubSeq(s, 1, i - 1) \o SubSeq(s, i + 1, Len(s))

\* The loop `for order_number, order_data in aggregated.items()` pops and
\* inserts keys of the dict it iterates. Python leaves the outcome open: the
\* iterator raises RuntimeError, or the loop runs to its end having skipped
\* entries. In CPython the renamed entry moves to the end of the entry table
\* and, when the insertion rebuilds the table, the entry after the renamed one
\* is skipped; skips[k] says whether the k-th renaming of the loop does so.
\* The iterator yields at most as many entries as the dict had at the start.
\* A renaming onto a key that exists shrinks the dict, which the iterator
\* always reports. Result: <<ok, aggregated>>.
RECURSIVE enrich_loop(_, _, _, _)
enrich_loop(aggregated, p, visits, skips) ==
    IF p > Len(aggregated) \/ visits = 0 THEN <<TRUE, aggregated>>
    ELSE LET order_data == aggregated[p]
             clean_order == clean_order_number(order_data.key)
         IN  IF clean_order = order_data.key
             THEN enrich_loop([aggregated EXCEPT ![p] = enrich(@)], p + 1,
                              visits - 1, skips)
             ELSE IF clean_order \in KeySet(aggregated)
                  THEN <<FALSE, aggregated>>
                  ELSE enrich_loop(
                          Append(RemoveAt(aggregated, p),
                                 enrich([order_data EXCEPT
                                            !.key = clean_order,
                                            !.order_number = clean_order])),
                          IF Head(skips) THEN p + 1 ELSE p,
                          visits - 1, Tail(skips))

dirty_keys(aggregated) ==
    {i \in 1..Len(aggregated) :
        clean_order_number(aggregated[i].key) # aggregated[i].key}

\* No key of the dict is rewritten by the loop: the iteration is well defined.
all_keys_clean(aggregated) == dirty_keys(aggregated) = {}

\* The outcomes an interpreter can give the loop over `aggregated`.
DictIterOutcomes(aggregated) ==
    {[raises |-> TRUE, skips |-> <<>>]}
    \cup {[raises |-> FALSE, skips |-> sk] :
             sk \in [1..Cardinality(dirty_keys(aggregated)) -> BOOLEAN]}

\* prepare_excel_data under the outcome `outcome` of iterating a mutated dict:
\* <<ok, aggregated>>, ok = FALSE when the function raises.
prepare_excel_data(excel_data, outcome) ==
    LET aggregated == aggregate_by_order_number(excel_data)
    IN  IF all_keys_clean(aggregated) \/ ~outcome.raises
        THEN enrich_loop(aggregated, 1, Len(aggregated), outcome.skips)
        ELSE <<FALSE, aggregated>>

(***************************************************************************)
(* The matchers. A matcher returns NoMatch (Python None), Raised (an         *)
(* exception leaves it) or a MatchResult.                                   *)
(***************************************************************************)
NoMatch == [kind |-> "none"]
Raised == [kind |-> "error"]

MatchResult(match_type, method, confidence, pdf, excel_order, amount_diff) ==
    [kind |-> "match",
     match_type |-> match_type,
     method |-> method,
     confidence |-> confidence,
     pdf |-> pdf.index,
     excel_key |-> excel_order.key,
     excel_order_number |-> excel_order.order_number,
     pdf_amount |-> pdf.amount,
     excel_amount |-> excel_order.total_amount,
     amount_difference |-> amount_diff,
     amount_percentage |->
        IF pdf.amount > 0 THEN RMul(Rat(amount_diff, pdf.amount), RInt(100))
        ELSE RInt(0)]

\* amount_diff <= pdf['amount'] * tolerance
within_tolerance(amount_diff, amount, tolerance) ==
    RLe(RInt(amount_diff), RMul(RInt(amount), tolerance))

\* classify without the tolerance test.
classify_discrepancy(amount_diff, amount, tolerance) == "discrepancy"

classify(amount_diff, amount, tolerance) ==
    IF within_tolerance(amount_diff, amount, tolerance)
    THEN "perfect_match" ELSE "discrepancy"

try_exact_match(pdf, excel_data, config) ==
    IF pdf.order_number = None THEN NoMatch
    ELSE IF pdf.order_number \in KeySet(excel_data)
    THEN LET excel_order == Get(excel_data, pdf.order_number)
             amount_diff == Abs(pdf.amount - excel_order.total_amount)
             match_type == classify(amount_diff, pdf.amount, config["tolerance"])
             confidence ==
                IF match_type = "perfect_match" THEN RInt(1)
                ELSE RMax(Rat(1, 10),
                          RSub(RInt(1), Rat(amount_diff, pdf.amount)))
         IN  MatchResult(match_type, "exact_order", confidence, pdf,
                         excel_order, amount_diff)
    ELSE NoMatch

MinPartialLen == 4

\* partial_scan taking the last candidate that passes the threshold, whatever
\* its confidence.
RECURSIVE partial_scan_last(_, _, _, _, _, _)
partial_scan_last(pdf, excel_data, available_orders, config, i, best) ==
    IF i > Len(available_orders) THEN best
    ELSE LET excel_order == Get(excel_data, available_orders[i])
             similarity == calculate_string_similarity(
                              str(pdf.order_number), str(available_orders[i]))
             amount_factor == calculate_amount_confidence(
                                 pdf.amount, excel_order.total_amount)
             combined_confidence ==
                RAdd(RMul(similarity, Rat(6, 10)), RMul(amount_factor, Rat(4, 10)))
             amount_diff == Abs(pdf.amount - excel_order.total_amount)
         IN  IF RLe(config["fuzzy_threshold"], similarity)
             THEN partial_scan_last(pdf, excel_data, available_orders, config, i + 1,
                    MatchResult(classify(amount_diff, pdf.amount, config["tolerance"]),
                                "partial_order", combined_confidence, pdf,
                                excel_order, amount_diff))
             ELSE partial_scan_last(pdf, excel_data, available_orders, config, i + 1,
                                    best)

\* The loop of try_partial_match over available_orders[i..]: `best` is
\* replaced only by a strictly higher combined confidence.
RECURSIVE partial_scan(_, _, _, _, _, _)
partial_scan(pdf, excel_data, available_orders, config, i, best) ==
    IF i > Len(available_orders) THEN best
    ELSE LET excel_order == Get(excel_data, available_orders[i])
             similarity == calculate_string_similarity(
                              str(pdf.order_number), str(available_orders[i]))
             amount_factor == calculate_amount_confidence(
                                 pdf.amount, excel_order.total_amount)
             combined_confidence ==
                RAdd(RMul(similarity, Rat(6, 10)), RMul(amount_factor, Rat(4, 10)))
             best_confidence ==
                IF best.kind = "match" THEN best.confidence ELSE RInt(0)
             amount_diff == Abs(pdf.amount - excel_order.total_amount)
         IN  IF /\ RLe(config["fuzzy_threshold"], similarity)
                /\ RLt(best_confidence, combined_confidence)
             THEN partial_scan(pdf, excel_data, available_orders, config, i + 1,
                    MatchResult(classify(amount_diff, pdf.amount, config["tolerance"]),
                                "partial_order", combined_confidence, pdf,
                                excel_order, amount_diff))
             ELSE partial_scan(pdf, excel_data, available_orders, config, i + 1, best)

try_partial_match(pdf, excel_data, available_orders, config) ==
    IF Len(str(pdf.order_number)) < MinPartialLen THEN NoMatch
    ELSE partial_scan(pdf, excel_data, available_orders, config, 1, NoMatch)

dates_are_coherent(pdf, excel_order, config) ==
    /\ pdf.invoice_date # NoDate
    /\ \E excel_date \in {excel_order.billing_period_start,
                          excel_order.billing_period_end} \ {NoDate} :
          Abs(pdf.invoice_date - excel_date) <= config["date_tolerance_days"]

suppliers_are_coherent(pdf, excel_order) ==
    /\ pdf.supplier # <<>>
    /\ \E i \in 1..Len(excel_order.suppliers) :
          RLt(Rat(8, 10),
              calculate_string_similarity(lower(pdf.supplier),
                                          lower(excel_order.suppliers[i])))

ExtendedToleranceFactor == 5

\* The loop of try_amount_fuzzy_match over available_orders[i..]. The division
\* by extended_tolerance raises ZeroDivisionError when it is zero.
RECURSIVE amount_fuzzy_scan(_, _, _, _, _, _)
amount_fuzzy_scan(pdf, excel_data, available_orders, config, i, best) ==
    IF i > Len(available_orders) THEN best
    ELSE LET excel_order == Get(excel_data, available_orders[i])
             extended_tolerance ==
                RMul(RInt(pdf.amount),
                     RMul(config["tolerance"], RInt(ExtendedToleranceFactor)))
             amount_diff == Abs(pdf.amount - excel_order.total_amount)
             base == RSub(RInt(1), RDiv(RInt(amount_diff), extended_tolerance))
             dated == IF dates_are_coherent(pdf, excel_order, config)
                      THEN RMul(base, Rat(12, 10)) ELSE base
             supplied == IF suppliers_are_coherent(pdf, excel_order)
                         THEN RMul(dated, Rat(11, 10)) ELSE dated
             confidence == RMin(RInt(1), supplied)
             best_confidence ==
                IF best.kind = "match" THEN best.confidence ELSE RInt(0)
         IN  IF ~RLe(RInt(amount_diff), extended_tolerance)
             THEN amount_fuzzy_scan(pdf, excel_data, available_orders, config,
                                    i + 1, best)
             ELSE IF extended_tolerance.n = 0 THEN Raised
             ELSE IF RLt(best_confidence, confidence)
             THEN amount_fuzzy_scan(pdf, excel_data, available_orders, config, i + 1,
                    MatchResult(classify(amount_diff, pdf.amount, config["tolerance"]),
                                "amount_fuzzy", confidence, pdf, excel_order,
                                amount_diff))
             ELSE amount_fuzzy_scan(pdf, excel_data, available_orders, config,
                                    i + 1, best)

try_amount_fuzzy_match(pdf, excel_data, available_orders, config) ==
    IF pdf.amount <= 0 THEN NoMatch
    ELSE amount_fuzzy_scan(pdf, excel_data, available_orders, config, 1, NoMatch)

calculate_date_similarity(pdf_date, excel_order, config) ==
    LET excel_dates == {excel_order.billing_period_start,
                        excel_order.billing_period_end} \ {NoDate}
        max_tolerance == config["date_tolerance_days"]
    IN  IF pdf_date = NoDate \/ excel_dates = {} THEN RInt(0)
        ELSE LET min_diff_days ==
                    CHOOSE m \in {Abs(pdf_date - d) : d \in excel_dates} :
                        \A d \in excel_dates : m <= Abs(pdf_date - d)
             IN  IF min_diff_days <= max_tolerance
                 THEN RSub(RInt(1), Rat(min_diff_days, max_tolerance))
                 ELSE RInt(0)

RECURSIVE max_supplier_similarity(_, _, _)
max_supplier_similarity(pdf_supplier, suppliers, i) ==
    IF i > Len(suppliers) THEN RInt(0)
    ELSE RMax(calculate_string_similarity(pdf_supplier, suppliers[i]),
              max_supplier_similarity(pdf_supplier, suppliers, i + 1))

\* combined_confidence of try_contextual_match: the factors present, each
\* weighted by its share of the total weight.
contextual_confidence(pdf, excel_order, config) ==
    LET with_supplier == pdf.supplier # <<>> /\ excel_order.suppliers # <<>>
        with_date == pdf.invoice_date # NoDate
        total_weight == (IF with_supplier THEN 4 ELSE 0)
                        + (IF with_date THEN 3 ELSE 0) + 3
        supplier_part ==
            IF with_supplier
            THEN RMul(max_supplier_similarity(pdf.supplier, excel_order.suppliers, 1),
                      Rat(4, total_weight))
            ELSE RInt(0)
        date_part ==
            IF with_date
            THEN RMul(calculate_date_similarity(pdf.invoice_date, excel_order, config),
                      Rat(3, total_weight))
            ELSE RInt(0)
        amount_part ==
            RMul(calculate_amount_confidence(pdf.amount, excel_order.total_amount),
                 Rat(3, total_weight))
    IN  RAdd(RAdd(supplier_part, date_part), amount_part)

RECURSIVE contextual_scan(_, _, _, _, _, _)
contextual_scan(pdf, excel_data, available_orders, config, i, best) ==
    IF i > Len(available_orders) THEN best
    ELSE LET excel_order == Get(excel_data, available_orders[i])
             combined_confidence == contextual_confidence(pdf, excel_order, config)
             best_confidence ==
                IF best.kind = "match" THEN best.confidence ELSE RInt(0)
             amount_diff == Abs(pdf.amount - excel_order.total_amount)
         IN  IF /\ RLt(best_confidence, combined_confidence)
                /\ RLe(Rat(6, 10), combined_confidence)
             THEN contextual_scan(pdf, excel_data, available_orders, config, i + 1,
                    MatchResult(classify(amount_diff, pdf.amount, config["tolerance"]),
                                "supplier_date", combined_confidence, pdf,
                                excel_order, amount_diff))
             ELSE contextual_scan(pdf, excel_data, available_orders, config, i + 1, best)

try_contextual_match(pdf, excel_data, available_orders, config) ==
    IF pdf.supplier = <<>> /\ pdf.invoice_date = NoDate THEN NoMatch
    ELSE contextual_scan(pdf, excel_data, available_orders, config, 1, NoMatch)

(***************************************************************************)
(* process_match_result, format_match_result, format_unmatched_pdf          *)
(***************************************************************************)
\* The result lists at the start of a matching function.
new_results(excel_data) ==
    [matches |-> <<>>, discrepancies |-> <<>>, unmatched_pdf |-> <<>>,
     unmatched_excel |-> Keys(excel_data), match_details |-> <<>>]

\* remove_order without the removal: the matched order stays in the pool.
remove_order_kept(unmatched_excel, excel_order_number) == unmatched_excel

\* list.remove(x) guarded by `if x in list`: the first occurrence goes.
remove_order(unmatched_excel, excel_order_number) ==
    IF InSeq(excel_order_number, unmatched_excel)
    THEN RemoveAt(unmatched_excel,
                  CHOOSE i \in 1..Len(unmatched_excel) :
                     /\ unmatched_excel[i] = excel_order_number
                     /\ \A j \in 1..(i - 1) : unmatched_excel[j] # excel_order_number)
    ELSE unmatched_excel

\* format_match_result reporting the difference as a fraction, not a percentage.
format_match_result_fraction(m) ==
    [type |-> m.match_type,
     method |-> m.method,
     confidence |-> round(m.confidence, 3),
     order_number |-> m.excel_order_number,
     pdf_file |-> m.pdf,
     pdf_amount |-> m.pdf_amount,
     excel_amount |-> m.excel_amount,
     difference |-> m.amount_difference,
     difference_percent |-> round(RDiv(m.amount_percentage, RInt(100)), 2)]

format_match_result(m) ==
    [type |-> m.match_type,
     method |-> m.method,
     confidence |-> round(m.confidence, 3),
     order_number |-> m.excel_order_number,
     pdf_file |-> m.pdf,
     pdf_amount |-> m.pdf_amount,
     excel_amount |-> m.excel_amount,
     difference |-> m.amount_difference,
     difference_percent |-> round(m.amount_percentage, 2)]

match_detail(m) ==
    [method |-> m.method, confidence |-> m.confidence, type |-> m.match_type,
     pdf_file |-> m.pdf, excel_order |-> m.excel_order_number]

\* The running average kept for each method in stats['method_performance'].
record_method(method_performance, m) ==
    LET old == IF m.method \in DOMAIN method_performance
               THEN method_performance[m.method]
               ELSE [count |-> 0, avg_confidence |-> RInt(0)]
        count == old.count + 1
        avg == RDiv(RAdd(RMul(old.avg_confidence, RInt(count - 1)), m.confidence),
                    RInt(count))
    IN  [k \in (DOMAIN method_performance) \cup {m.method} |->
            IF k = m.method THEN [count |-> count, avg_confidence |-> avg]
            ELSE method_performance[k]]

process_results(m, res) ==
    [res EXCEPT
        !.unmatched_excel = remove_order(@, m.excel_order_number),
        !.matches = IF m.match_type = "perfect_match"
                    THEN Append(@, format_match_result(m)) ELSE @,
        !.discrepancies = IF m.match_type = "perfect_match"
                          THEN @ ELSE Append(@, format_match_result(m)),
        !.match_details = Append(@, match_detail(m))]

process_stats(m, st) ==
    [st EXCEPT
        !.perfect_matches = IF m.match_type = "perfect_match" THEN @ + 1 ELSE @,
        !.discrepancies = IF m.match_type = "perfect_match" THEN @ ELSE @ + 1,
        !.method_performance = record_method(@, m)]

\* mark_matched without the `del`: the key 'match_attempts' stays.
mark_matched_kept(pdf) == pdf

\* `del match_result.pdf_data['match_attempts']`
mark_matched(pdf) == [pdf EXCEPT !.has_attempts = FALSE, !.match_attempts = <<>>]

format_unmatched_pdf(pdf) ==
    [filename |-> pdf.filename, order_number |-> pdf.order_number,
     amount |-> pdf.amount, match_attempts |-> pdf.match_attempts]

(***************************************************************************)
(* post_process_results, generate_summary, assess_overall_quality           *)
(***************************************************************************)
RECURSIVE SumSeq(_, _)
SumSeq(s, i) == IF i > Len(s) THEN 0 ELSE s[i] + SumSeq(s, i + 1)

RECURSIVE RSumSeq(_, _)
RSumSeq(s, i) == IF i > Len(s) THEN RInt(0) ELSE RAdd(s[i], RSumSeq(s, i + 1))

\* unmatched_excel_formatted with the membership test inverted, so no
\* order that is left is reported.
unmatched_excel_dropped(res, excel_data) ==
    LET kept == SelectSeq(res.unmatched_excel, LAMBDA k : k \notin KeySet(excel_data))
    IN  [i \in 1..Len(kept) |->
            [order_number |-> kept[i],
             total_amount |-> Get(excel_data, kept[i]).total_amount]]

\* The formatted unmatched orders: the keys left that are keys of excel_data.
unmatched_excel_formatted(res, excel_data) ==
    LET kept == SelectSeq(res.unmatched_excel, LAMBDA k : k \in KeySet(excel_data))
    IN  [i \in 1..Len(kept) |->
            [order_number |-> kept[i],
             total_amount |-> Get(excel_data, kept[i]).total_amount]]

total_pdf_amount(pdf_data) ==
    SumSeq([i \in 1..Len(pdf_data) |->
               IF pdf_data[i].amount > 0 THEN pdf_data[i].amount ELSE 0], 1)

\* discrepancy_analysis['average_discrepancy'], defined when there are
\* discrepancies.
average_discrepancy(res) ==
    Rat(SumSeq([i \in 1..Len(res.discrepancies) |-> res.discrepancies[i].difference], 1),
        Len(res.discrepancies))

rate(count, total) == IF total > 0 THEN RMul(Rat(count, total), RInt(100)) ELSE RInt(0)

\* quality_score with the matching points taken from the rate of invoices
\* that are not perfect matches.
quality_score_unmatched(matching_rate, coverage_rate, res, pdf_data) ==
    LET matching_points ==
            RSub(RInt(40), RMin(RInt(40), RMul(matching_rate, Rat(4, 10))))
        coverage_points == RMin(RInt(30), RMul(coverage_rate, Rat(3, 10)))
        total_amount == total_pdf_amount(pdf_data)
        discrepancy_rate ==
            IF total_amount > 0
            THEN RMul(RDiv(average_discrepancy(res), RInt(total_amount)), RInt(100))
            ELSE RInt(0)
        precision_points ==
            IF res.discrepancies = <<>> THEN 20
            ELSE IF RLe(discrepancy_rate, RInt(1)) THEN 20
            ELSE IF RLe(discrepancy_rate, RInt(5)) THEN 15
            ELSE IF RLe(discrepancy_rate, RInt(10)) THEN 10
            ELSE 0
        confidence_points ==
            IF res.match_details = <<>> THEN RInt(0)
            ELSE RMul(RDiv(RSumSeq([i \in 1..Len(res.match_details) |->
                                       res.match_details[i].confidence], 1),
                           RInt(Len(res.match_details))),
                      RInt(10))
    IN  RAdd(RAdd(matching_points, coverage_points),
             RAdd(RInt(precision_points), confidence_points))

quality_score(matching_rate, coverage_rate, res, pdf_data) ==
    LET matching_points == RMin(RInt(40), RMul(matching_rate, Rat(4, 10)))
        coverage_points == RMin(RInt(30), RMul(coverage_rate, Rat(3, 10)))
        total_amount == total_pdf_amount(pdf_data)
        discrepancy_rate ==
            IF total_amount > 0
            THEN RMul(RDiv(average_discrepancy(res), RInt(total_amount)), RInt(100))
            ELSE RInt(0)
        precision_points ==
            IF res.discrepancies = <<>> THEN 20
            ELSE IF RLe(discrepancy_rate, RInt(1)) THEN 20
            ELSE IF RLe(discrepancy_rate, RInt(5)) THEN 15
            ELSE IF RLe(discrepancy_rate, RInt(10)) THEN 10
            ELSE 0
        confidence_points ==
            IF res.match_details = <<>> THEN RInt(0)
            ELSE RMul(RDiv(RSumSeq([i \in 1..Len(res.match_details) |->
                                       res.match_details[i].confidence], 1),
                           RInt(Len(res.match_details))),
                      RInt(10))
    IN  RAdd(RAdd(matching_points, coverage_points),
             RAdd(RInt(precision_points), confidence_points))

grade_of(score) ==
    IF RLe(RInt(90), score) THEN "A"
    ELSE IF RLe(RInt(80), score) THEN "B"
    ELSE IF RLe(RInt(70), score) THEN "C"
    ELSE IF RLe(RInt(60), score) THEN "D"
    ELSE "F"

assess_overall_quality(matching_rate, coverage_rate, res, pdf_data) ==
    LET score == quality_score(matching_rate, coverage_rate, res, pdf_data)
    IN  [score |-> round(score, 1), grade |-> grade_of(score)]

\* generate_summary, with results['unmatched_excel'] already formatted.
generate_summary(res, st, pdf_data, unmatched_excel) ==
    LET total_pdfs == st.total_pdfs
        matches == Len(res.matches)
        discrepancies == Len(res.discrepancies)
        matching_rate == rate(matches, total_pdfs)
        coverage_rate == rate(matches + discrepancies, total_pdfs)
    IN  [total_invoices |-> total_pdfs,
         total_excel_orders |-> st.total_excel_orders,
         perfect_matches |-> matches,
         discrepancies |-> discrepancies,
         unmatched_pdf |-> Len(res.unmatched_pdf),
         unmatched_excel |-> Len(unmatched_excel),
         matching_rate |-> round(matching_rate, 2),
         discrepancy_rate |-> round(rate(discrepancies, total_pdfs), 2),
         coverage_rate |-> round(coverage_rate, 2),
         total_amount |-> total_pdf_amount(pdf_data),
         method_performance |-> st.method_performance,
         quality_assessment |->
            assess_overall_quality(matching_rate, coverage_rate, res, pdf_data)]

(***************************************************************************)
(* Inputs of the model                                                      *)
(***************************************************************************)
OrdA == <<"5", "6", "0", "0", "0", "1", "3", "9">>
OrdB == <<"5", "6", "0", "0", "0", "1", "3", "1">>
OrdC == <<"1", "2", "3", "4", "5", "6", "7", "8">>
OrdD == <<"8", "7", "6", "5", "4", "3", "2", "1">>
OrdADash == <<"5", "6", "0", "0", "-", "0", "1", "3", "9">>
OrdAbc == <<"a", "b", "c">>
RefKey == <<"4", "9", "4", "9", "_", "6", "5", "7", "4", "4">>

Pdf(success, po, net, date, supplier, ref) ==
    [success |-> success, purchase_order |-> po, total_net |-> net,
     invoice_date |-> date, supplier |-> supplier, main_reference |-> ref]

PdfA == Pdf(TRUE, OrdA, 100, 100, Randstad, None)
PdfB == Pdf(TRUE, OrdB, 100, NoDate, <<>>, None)
PdfC == Pdf(TRUE, OrdC, 100, 100, Randstad, None)
PdfCPlain == Pdf(TRUE, OrdC, 100, BadDate, <<>>, None)
PdfRef == Pdf(TRUE, None, 100, NoDate, <<>>, RefKey)
PdfZero == Pdf(TRUE, OrdA, 0, NoDate, <<>>, None)
PdfFailed == Pdf(FALSE, OrdA, 100, NoDate, <<>>, None)

PdfPool == {PdfA, PdfB, PdfC, PdfCPlain, PdfRef, PdfZero, PdfFailed}

Line(valid, order, net, date, supplier) ==
    [is_valid |-> valid, order_number |-> order, net_amount |-> net,
     statement_date |-> date, supplier |-> supplier, cost_center |-> None]

LineA == Line(TRUE, OrdA, 100, 110, Randstad)
LineA10 == Line(TRUE, OrdA, 10, NoDate, <<>>)
LineD == Line(TRUE, OrdD, 100, NoDate, <<>>)
LineD4 == Line(TRUE, OrdD, 4, NoDate, <<>>)
LineDash == Line(TRUE, OrdADash, 100, NoDate, <<>>)
LineAbc == Line(TRUE, OrdAbc, 100, NoDate, <<>>)
LineInvalid == Line(FALSE, OrdA, 100, NoDate, <<>>)

LinePool == {LineA, LineA10, LineD, LineD4, LineDash, LineAbc, LineInvalid}

\* The config dict show_reconciliation_page builds from its widgets.
AppConfig(tolerance, method, min_confidence, extended_tolerance) ==
    [k \in {"tolerance", "method", "min_confidence", "enable_reference_matching",
            "extended_tolerance_factor"} |->
        CASE k = "tolerance" -> tolerance
          [] k = "method" -> method
          [] k = "min_confidence" -> min_confidence
          [] k = "enable_reference_matching" -> TRUE
          [] k = "extended_tolerance_factor" -> IF extended_tolerance THEN 5 ELSE 2]

\* "Intelligent", "Exact uniquement", "Partiel + Exact" after
\* .lower().replace(" uniquement", "").replace(" + exact", "_partial")
\* config['method'] as the page computes it from the strategy selected:
\* matching_method.lower().replace(" uniquement", "").replace(" + exact", "_partial")
page_method(matching_method) ==
    CASE matching_method = "Intelligent" -> "intelligent"
      [] matching_method = "Exact uniquement" -> "exact"
      [] matching_method = "Partiel + Exact" -> "partiel_partial"

AppIntelligentZero == AppConfig(Rat(0, 100), page_method("Intelligent"), Rat(6, 10), FALSE)
AppExactFive == AppConfig(Rat(5, 100), page_method("Exact uniquement"), Rat(6, 10), TRUE)
AppPartielOne == AppConfig(Rat(1, 100), page_method("Partiel + Exact"), Rat(6, 10), FALSE)
DirectPartiel == [k \in {"method"} |-> "partiel"]

ConfigPool == {NoConfig, AppIntelligentZero, AppExactFive, AppPartielOne, DirectPartiel}

SeqsUpTo(S, n) == UNION {[1..k -> S] : k \in 0..n}

AList(items) == [kind |-> "list", items |-> items]
NotAList == [kind |-> "none", items |-> <<>>]

PdfArgs == {AList(l) : l \in SeqsUpTo(PdfPool, MaxInvoices)} \cup {NotAList}
ExcelArgs == {AList(l) : l \in SeqsUpTo(LinePool, MaxLines)} \cup {NotAList}

\* The smaller inputs of the specification with several runs of one engine.
RunsPdfArgs == {AList(<<PdfA>>), AList(<<PdfB>>)}
RunsExcelArgs == {AList(<<>>), AList(<<LineA>>), AList(<<LineDash>>)}
RunsConfigPool == {NoConfig, AppExactFive, DirectPartiel}

\* The inputs of the specification of one call with one invoice and one line,
\* over more amounts.
LineRef == [Line(TRUE, OrdD, 100, NoDate, <<>>) EXCEPT !.cost_center = RefKey]
AppIntelligentOneExt == AppConfig(Rat(1, 100), page_method("Intelligent"), Rat(7, 10), TRUE)
PairInvoiceAmounts == {100, 1000}
PairLineAmounts == {10, 98, 100, 102, 104, 105, 110, 1004}
PairPdfs ==
    {Pdf(TRUE, po, net, 100, Randstad, None) :
        po \in {OrdA, OrdC}, net \in PairInvoiceAmounts} \cup {PdfRef}
PairLines ==
    {Line(TRUE, order, net, date, supplier) :
        order \in {OrdA, OrdD}, net \in PairLineAmounts,
        date \in {110, NoDate}, supplier \in {Randstad, <<>>}} \cup {LineRef}
PairConfigPool == ConfigPool \cup {AppIntelligentOneExt}

\* One invoice against up to MaxLines lines of three orders, two of them
\* equally close to the order of the first invoice, with amounts inside and
\* outside the window of the amount phase.
OrdE == <<"5", "6", "0", "0", "0", "1", "3", "8">>
CandidateLineAmounts == {98, 100, 102, 110}
CandidatePdfs == {Pdf(TRUE, po, 100, 100, Randstad, None) : po \in {OrdB, OrdC}}
CandidateLines ==
    {Line(TRUE, order, net, context[1], context[2]) :
        order \in {OrdA, OrdD, OrdE}, net \in CandidateLineAmounts,
        context \in {<<110, Randstad>>, <<NoDate, <<>>>>}}
CandidateConfigPool == {NoConfig, AppExactFive, AppPartielOne, DirectPartiel}

\* The amounts of the direct calls of calculate_amount_confidence.
Amounts == {10 * k : k \in 0..MaxAmountTens}

\* The texts of the direct calls of the normalization functions: order
\* numbers as cells and invoices carry them, and amounts written with the two
\* separators in every position.
OrderTexts ==
    {<<"5", "6", "0", "0", "0", "0", "2", "1", "0", "1", ".", "0">>,
     <<"5", "6", "0", "0", "0", "0", "2", "1", "0", "1">>,
     <<"a", "b", "c">>,
     <<"5", "6", "0", "0", "0", "1", "3", "9">>,
     <<"5", "6", "0", "0", "-", "0", "1", "3", "9">>,
     <<" ", "5", "6", "0", "0", "0", "1", "3", "9", " ">>,
     <<"5", "6", "0", "0", "0", "1", "3", "9", ".", "0">>,
     <<"1", "2", "3", "4", "5", "6", "7">>,
     <<"1", "2", "3", "4", "5", "6", "7", "8", "9", "0", "1", "2", "3">>,
     <<"1", "2", "3", "4", "5", "6", "7", "8", "9", "0", "1", "2">>,
     <<>>}
AmountTexts ==
    {head \o sep1 \o middle \o sep2 \o tail :
        head \in {<<"1">>, <<"-", "1", "2">>},
        sep1 \in {<<>>, <<",">>, <<".">>, <<" ">>},
        middle \in {<<>>, <<"2", "3", "4">>},
        sep2 \in {<<>>, <<",">>, <<".">>},
        tail \in {<<>>, <<"5">>, <<"5", "6">>, <<"5", "6", "7">>}}
    \cup {<<"9", ".", "8", "4">>, <<"1", "0", "0", " ", "E", "U", "R">>}
RawTexts == OrderTexts \cup AmountTexts


(***************************************************************************)
(* State                                                                    *)
(***************************************************************************)
VARIABLES
    config,      \* self.config of the engine
    stats,       \* self.stats of the engine
    pdf_in,      \* the pdf_data argument of the call
    excel_in,    \* the excel_data argument of the call
    override,    \* the config argument of the call
    pdf_data,    \* prepared_pdfs
    excel_data,  \* aggregated_excel
    results,     \* the results dict of the matching function
    queue,       \* positions in pdf_data of the invoices the phase iterates
    cur,         \* position of the loop in the phase's list
    pc,          \* where perform_reconciliation stands
    run,         \* number of the call on this engine
    dict_iter,   \* how this interpreter iterates each mutated dict it has met
    history,     \* what each finished call was given and gave back, oldest first
    amount1,     \* first argument of a direct call of calculate_amount_confidence
    amount2,     \* its second argument
    amount_confidence,  \* what the direct calls made so far returned
    raw,         \* the text given to a direct call of a normalization function
    normalized   \* the function called on it and what it returned

vars == <<config, stats, pdf_in, excel_in, override, pdf_data, excel_data,
          results, queue, cur, pc, run, history, dict_iter,
          amount1, amount2, amount_confidence,
          raw, normalized>>

(***************************************************************************)
(* Initial states                                                           *)
(***************************************************************************)
NoResults ==
    [matches |-> <<>>, discrepancies |-> <<>>, unmatched_pdf |-> <<>>,
     unmatched_excel |-> <<>>, match_details |-> <<>>]

InitEngine ==
    /\ config = DefaultConfig
    /\ stats = InitialStats
    /\ history = <<>>
    /\ dict_iter = {}
    /\ pdf_data = <<>>
    /\ excel_data = <<>>
    /\ results = NoResults
    /\ queue = <<>>
    /\ cur = 1
    /\ pc = "idle"
    /\ run = 1

\* No direct call of calculate_amount_confidence is made.
NoDirectCall ==
    /\ amount1 = 0
    /\ amount2 = 0
    /\ amount_confidence = <<>>
    /\ raw = <<>>
    /\ normalized = <<>>

Init ==
    /\ InitEngine
    /\ NoDirectCall
    /\ pdf_in \in PdfArgs
    /\ excel_in \in ExcelArgs
    /\ override \in ConfigPool

InitRuns ==
    /\ InitEngine
    /\ NoDirectCall
    /\ pdf_in \in RunsPdfArgs
    /\ excel_in \in RunsExcelArgs
    /\ override \in RunsConfigPool

InitPair ==
    /\ InitEngine
    /\ NoDirectCall
    /\ pdf_in \in {AList(<<pdf>>) : pdf \in PairPdfs}
    /\ excel_in \in {AList(<<line>>) : line \in PairLines}
    /\ override \in PairConfigPool

InitCandidates ==
    /\ InitEngine
    /\ NoDirectCall
    /\ pdf_in \in {AList(<<pdf>>) : pdf \in CandidatePdfs}
    /\ excel_in \in {AList(l) : l \in SeqsUpTo(CandidateLines, MaxLines)}
    /\ override \in CandidateConfigPool

InitAmounts ==
    /\ InitEngine
    /\ pdf_in = AList(<<>>)
    /\ excel_in = AList(<<>>)
    /\ override = NoConfig
    /\ amount1 \in Amounts
    /\ amount2 \in Amounts
    /\ amount_confidence = <<>>
    /\ raw = <<>>
    /\ normalized = <<>>

\* One text, and no normalization function called on it yet.
InitTexts ==
    /\ InitEngine
    /\ pdf_in = AList(<<>>)
    /\ excel_in = AList(<<>>)
    /\ override = NoConfig
    /\ amount1 = 0
    /\ amount2 = 0
    /\ amount_confidence = <<>>
    /\ raw \in RawTexts
    /\ normalized = <<>>

\* The except clause of perform_reconciliation: the exception is logged and
\* raised again, the call returns nothing.
Raise(cfg) ==
    /\ pc' = "raised"
    /\ history' = Append(history,
          [pdf_in |-> pdf_in, excel_in |-> excel_in, override |-> override,
           outcome |-> "raised", config_used |-> cfg, results |-> NoResults])

\* perform_reconciliation up to prepare_pdf_data: iterating an argument that
\* is not a list raises.
StartRun ==
    /\ pc = "idle"
    /\ config' = effective_config(config, override)
    /\ IF pdf_in.kind = "list"
       THEN /\ pdf_data' = prepare_pdf_data(pdf_in.items)
            /\ pc' = "prepare_excel"
            /\ UNCHANGED history
       ELSE /\ Raise(effective_config(config, override))
            /\ UNCHANGED pdf_data
    /\ UNCHANGED <<stats, pdf_in, excel_in, override, excel_data, results,
                   queue, cur, run, dict_iter, amount1, amount2, amount_confidence,
          raw, normalized>>

\* The matching function perform_reconciliation dispatches to.
matching_function(cfg) ==
    IF cfg["method"] = "exact" THEN "exact_reconciliation"
    ELSE IF cfg["method"] = "partiel" THEN "partial_reconciliation"
    ELSE "intelligent_reconciliation"

first_pc(cfg) ==
    CASE matching_function(cfg) = "exact_reconciliation" -> "exact_only"
      [] matching_function(cfg) = "partial_reconciliation" -> "partial1"
      [] OTHER -> "phase1"

\* prepare_excel_data, the initial statistics and the start of the matching
\* function.
PrepareExcel ==
    /\ pc = "prepare_excel"
    /\ IF excel_in.kind # "list"
       THEN /\ Raise(config)
            /\ UNCHANGED <<excel_data, stats, results, dict_iter>>
       ELSE LET aggregated == aggregate_by_order_number(excel_in.items)
                keys == Keys(aggregated)
                known == {o \in DictIterOutcomes(aggregated) :
                             <<keys, o>> \in dict_iter}
            IN  \E outcome \in (IF known # {} THEN known
                                ELSE IF all_keys_clean(aggregated)
                                     THEN {[raises |-> FALSE, skips |-> <<>>]}
                                     ELSE DictIterOutcomes(aggregated)) :
                   LET prepared == prepare_excel_data(excel_in.items, outcome)
                   IN  /\ dict_iter' =
                            IF all_keys_clean(aggregated) THEN dict_iter
                            ELSE dict_iter \cup {<<keys, outcome>>}
                       /\ IF prepared[1]
                          THEN /\ excel_data' = prepared[2]
                               /\ stats' = [stats EXCEPT
                                              !.total_pdfs = Len(pdf_data),
                                              !.total_excel_orders = Len(prepared[2])]
                               /\ results' = new_results(prepared[2])
                               /\ pc' = first_pc(config)
                               /\ UNCHANGED history
                          ELSE /\ Raise(config)
                               /\ UNCHANGED <<excel_data, stats, results>>
    /\ cur' = 1
    /\ queue' = <<>>
    /\ UNCHANGED <<config, pdf_in, excel_in, override, pdf_data, run,
                   amount1, amount2, amount_confidence,
          raw, normalized>>

(***************************************************************************)
(* The matching loops: one action per iteration                             *)
(***************************************************************************)
\* process_match_result for the invoice at position pos of pdf_data.
Accept(m, pos) ==
    /\ results' = process_results(m, results)
    /\ stats' = process_stats(m, stats)
    /\ pdf_data' = [pdf_data EXCEPT ![pos] = mark_matched(@)]

\* `match_result and match_result.confidence >= self.config['min_confidence']`
accepted(m, cfg) == m.kind = "match" /\ RLe(cfg["min_confidence"], m.confidence)

\* pdf['match_attempts'].append((name, confidence)) when a match was found
\* and not accepted.
NoteAttempt(m, pos, name) ==
    /\ pdf_data' = [pdf_data EXCEPT
          ![pos].match_attempts =
              IF m.kind = "match" THEN Append(@, <<name, m.confidence>>) ELSE @]
    /\ UNCHANGED <<results, stats>>

\* [pdf for pdf in pdf_data if 'match_attempts' in pdf], as positions.
with_attempts(pdfs) ==
    SelectSeq([i \in 1..Len(pdfs) |-> i], LAMBDA i : pdfs[i].has_attempts)

\* [pdf for pdf in pdf_data if pdf.get('needs_partial_match')], as positions.
needing_partial(pdfs) ==
    SelectSeq([i \in 1..Len(pdfs) |-> i], LAMBDA i : pdfs[i].needs_partial_match)

Frame == UNCHANGED <<config, pdf_in, excel_in, override, excel_data, run, dict_iter,
                     amount1, amount2, amount_confidence,
          raw, normalized>>

\* intelligent_reconciliation, phase 1: one invoice
IntelligentExact ==
    /\ pc = "phase1"
    /\ cur <= Len(pdf_data)
    /\ LET m == try_exact_match(pdf_data[cur], excel_data, config)
       IN  IF m.kind = "match"
           THEN Accept(m, cur)
           ELSE /\ pdf_data' = [pdf_data EXCEPT ![cur].has_attempts = TRUE,
                                                ![cur].match_attempts = <<>>]
                /\ UNCHANGED <<results, stats>>
    /\ cur' = cur + 1
    /\ UNCHANGED <<pc, queue, history>>
    /\ Frame

BeginPhase(from, to) ==
    /\ pc = from
    /\ cur > (IF from = "phase1" THEN Len(pdf_data) ELSE Len(queue))
    /\ queue' = with_attempts(pdf_data)
    /\ cur' = 1
    /\ pc' = to
    /\ UNCHANGED <<pdf_data, results, stats, history>>
    /\ Frame

BeginPartial == BeginPhase("phase1", "phase2")
BeginAmountFuzzy == BeginPhase("phase2", "phase3")
BeginContextual == BeginPhase("phase3", "phase4")

\* intelligent_reconciliation, the partial phase: one invoice
IntelligentPartial ==
    /\ pc = "phase2"
    /\ cur <= Len(queue)
    /\ LET pos == queue[cur]
           m == try_partial_match(pdf_data[pos], excel_data,
                                  results.unmatched_excel, config)
       IN  IF accepted(m, config) THEN Accept(m, pos)
           ELSE NoteAttempt(m, pos, "partial")
    /\ cur' = cur + 1
    /\ UNCHANGED <<pc, queue, history>>
    /\ Frame

\* intelligent_reconciliation, the amount phase: one invoice; an exception of
\* the matcher leaves the loop and the function.
IntelligentAmountFuzzy ==
    /\ pc = "phase3"
    /\ cur <= Len(queue)
    /\ LET pos == queue[cur]
           m == try_amount_fuzzy_match(pdf_data[pos], excel_data,
                                       results.unmatched_excel, config)
       IN  IF m.kind = "error"
           THEN /\ Raise(config)
                /\ UNCHANGED <<pdf_data, results, stats>>
           ELSE /\ IF accepted(m, config) THEN Accept(m, pos)
                   ELSE NoteAttempt(m, pos, "amount_fuzzy")
                /\ UNCHANGED <<pc, history>>
    /\ cur' = cur + 1
    /\ UNCHANGED queue
    /\ Frame

\* intelligent_reconciliation, the contextual phase: one invoice
IntelligentContextual ==
    /\ pc = "phase4"
    /\ cur <= Len(queue)
    /\ LET pos == queue[cur]
           m == try_contextual_match(pdf_data[pos], excel_data,
                                     results.unmatched_excel, config)
       IN  IF accepted(m, config) THEN Accept(m, pos)
           ELSE /\ results' = [results EXCEPT !.unmatched_pdf =
                                  Append(@, format_unmatched_pdf(pdf_data[pos]))]
                /\ UNCHANGED <<pdf_data, stats>>
    /\ cur' = cur + 1
    /\ UNCHANGED <<pc, queue, history>>
    /\ Frame

\* exact_reconciliation: one invoice
ExactReconciliation ==
    /\ pc = "exact_only"
    /\ cur <= Len(pdf_data)
    /\ LET m == try_exact_match(pdf_data[cur], excel_data, config)
       IN  IF m.kind = "match" THEN Accept(m, cur)
           ELSE /\ results' = [results EXCEPT !.unmatched_pdf =
                                  Append(@, format_unmatched_pdf(pdf_data[cur]))]
                /\ UNCHANGED <<pdf_data, stats>>
    /\ cur' = cur + 1
    /\ UNCHANGED <<pc, queue, history>>
    /\ Frame

\* partial_reconciliation, phase 1: one invoice
PartialReconciliationExact ==
    /\ pc = "partial1"
    /\ cur <= Len(pdf_data)
    /\ LET m == try_exact_match(pdf_data[cur], excel_data, config)
       IN  IF m.kind = "match" THEN Accept(m, cur)
           ELSE /\ pdf_data' = [pdf_data EXCEPT ![cur].needs_partial_match = TRUE]
                /\ UNCHANGED <<results, stats>>
    /\ cur' = cur + 1
    /\ UNCHANGED <<pc, queue, history>>
    /\ Frame

PartialReconciliationBegin ==
    /\ pc = "partial1"
    /\ cur > Len(pdf_data)
    /\ queue' = needing_partial(pdf_data)
    /\ cur' = 1
    /\ pc' = "partial2"
    /\ UNCHANGED <<pdf_data, results, stats, history>>
    /\ Frame

\* partial_reconciliation, phase 2: one invoice
PartialReconciliationPartial ==
    /\ pc = "partial2"
    /\ cur <= Len(queue)
    /\ LET pos == queue[cur]
           m == try_partial_match(pdf_data[pos], excel_data,
                                  results.unmatched_excel, config)
       IN  IF accepted(m, config) THEN Accept(m, pos)
           ELSE /\ results' = [results EXCEPT !.unmatched_pdf =
                                  Append(@, format_unmatched_pdf(pdf_data[pos]))]
                /\ UNCHANGED <<pdf_data, stats>>
    /\ cur' = cur + 1
    /\ UNCHANGED <<pc, queue, history>>
    /\ Frame

\* The matching function has returned: post_process_results, generate_summary
\* and the metadata; perform_reconciliation returns the results.
matching_done ==
    \/ pc = "exact_only" /\ cur > Len(pdf_data)
    \/ pc \in {"phase4", "partial2"} /\ cur > Len(queue)

PostProcess ==
    /\ matching_done
    /\ LET unmatched_excel == unmatched_excel_formatted(results, excel_data)
           summary == generate_summary(results, stats, pdf_data, unmatched_excel)
           final_stats == [stats EXCEPT
                              !.unmatched_pdf = Len(results.unmatched_pdf),
                              !.unmatched_excel = Len(unmatched_excel)]
           returned ==
              [matches |-> results.matches,
               discrepancies |-> results.discrepancies,
               unmatched_pdf |-> results.unmatched_pdf,
               unmatched_excel |-> unmatched_excel,
               match_details |-> results.match_details,
               summary |-> summary,
               metadata |-> [config_used |-> config,
                             performance_stats |-> final_stats]]
       IN  /\ stats' = final_stats
           /\ results' = returned
           /\ history' = Append(history,
                 [pdf_in |-> pdf_in, excel_in |-> excel_in, override |-> override,
                  outcome |-> "returned", config_used |-> config,
                  results |-> returned])
    /\ pc' = "done"
    /\ UNCHANGED <<pdf_data, queue, cur>>
    /\ Frame

\* The caller calls the same engine again (the page keeps one engine in
\* st.cache_resource).
CallAgain ==
    /\ pc \in {"done", "raised"}
    /\ run < MaxRuns
    /\ run' = run + 1
    /\ pdf_in' \in RunsPdfArgs
    /\ excel_in' \in RunsExcelArgs
    /\ override' \in RunsConfigPool
    /\ pdf_data' = <<>>
    /\ excel_data' = <<>>
    /\ results' = NoResults
    /\ queue' = <<>>
    /\ cur' = 1
    /\ pc' = "idle"
    /\ UNCHANGED <<config, stats, history, dict_iter,
                   amount1, amount2, amount_confidence,
          raw, normalized>>

Next ==
    \/ StartRun
    \/ PrepareExcel
    \/ IntelligentExact
    \/ BeginPartial
    \/ IntelligentPartial
    \/ BeginAmountFuzzy
    \/ IntelligentAmountFuzzy
    \/ BeginContextual
    \/ IntelligentContextual
    \/ ExactReconciliation
    \/ PartialReconciliationExact
    \/ PartialReconciliationBegin
    \/ PartialReconciliationPartial
    \/ PostProcess

Spec == Init /\ [][Next]_vars

NextRuns == Next \/ CallAgain

SpecRuns == InitRuns /\ [][NextRuns]_vars

SpecPair == InitPair /\ [][Next]_vars
SpecCandidates == InitCandidates /\ [][Next]_vars

\* A direct call of calculate_amount_confidence(amount1, amount2).
CalculateAmountConfidence ==
    /\ amount_confidence = <<>>
    /\ amount_confidence' = <<calculate_amount_confidence(amount1, amount2)>>
    /\ UNCHANGED <<config, stats, pdf_in, excel_in, override, pdf_data, excel_data,
                   results, queue, cur, pc, run, history, dict_iter,
                   amount1, amount2, raw, normalized>>

SpecAmounts == InitAmounts /\ [][CalculateAmountConfidence]_vars

\* A direct call of one normalization function on the text.
Normalize(function, value) ==
    /\ normalized = <<>>
    /\ normalized' = <<[function |-> function, value |-> value]>>
    /\ UNCHANGED <<config, stats, pdf_in, excel_in, override, pdf_data, excel_data,
                   results, queue, cur, pc, run, history, dict_iter,
                   amount1, amount2, amount_confidence, raw>>

\* The order functions are called on the order texts and the amount functions
\* on the amount texts.
CleanOrderNumber ==
    /\ raw \in OrderTexts
    /\ Normalize("clean_order_number", clean_order_number(raw))

NormalizeOrderNumber ==
    /\ raw \in OrderTexts
    /\ Normalize("normalize_order_number", normalize_order_number(raw))

ParseAmount ==
    /\ raw \in AmountTexts
    /\ Normalize("parse_amount", parse_amount_str(raw))

ExtractorParseAmount ==
    /\ raw \in AmountTexts
    /\ Normalize("PDFExtractor.parse_amount", PDFExtractor_parse_amount(raw))

CleanAmountColumn ==
    /\ raw \in AmountTexts
    /\ Normalize("clean_amount_column", clean_amount_column(raw))

NextTexts ==
    \/ CleanOrderNumber
    \/ NormalizeOrderNumber
    \/ ParseAmount
    \/ ExtractorParseAmount
    \/ CleanAmountColumn

SpecTexts == InitTexts /\ [][NextTexts]_vars

(***************************************************************************)
(* Properties                                                               *)
(***************************************************************************)
Range(s) == {s[i] : i \in 1..Len(s)}

\* The accepted results of the call, perfect matches first.
accepted_results == results.matches \o results.discrepancies

\* The invoice each entry of the three invoice lists is about.
listed_invoices ==
    [i \in 1..Len(accepted_results) |-> accepted_results[i].pdf_file]
    \o [i \in 1..Len(results.unmatched_pdf) |-> results.unmatched_pdf[i].filename]

\* C1: when a call returns, every eligible invoice is in exactly one of
\* matches, discrepancies and unmatched_pdf, once: the three lengths add up to
\* the number of eligible invoices.
C1_EveryInvoiceInOneList ==
    pc = "done" =>
        /\ Len(results.matches) + Len(results.discrepancies)
              + Len(results.unmatched_pdf) = Len(pdf_data)
        /\ \A p \in 1..Len(pdf_data) :
              Cardinality({i \in 1..Len(listed_invoices) :
                              listed_invoices[i] = pdf_data[p].index}) = 1

C1_Witness ==
    /\ pc = "done"
    /\ Len(pdf_data) = 2
    /\ Len(results.discrepancies) = 1
    /\ Len(results.unmatched_pdf) = 1
    /\ results.discrepancies[1].method = "partial_order"

\* C2: when a call returns, no two accepted results reference the same order
\* aggregate.
C2_AggregateClaimedOnce ==
    pc = "done" =>
        \A i, j \in 1..Len(accepted_results) :
            accepted_results[i].order_number = accepted_results[j].order_number
                => i = j

\* C3: the phases run breadth-first: once a later phase runs, every invoice
\* whose order number is the key of an aggregate has its exact result, and no
\* aggregate keyed by the order number of an eligible invoice is ever taken
\* by a phase other than the exact one.
C3_ExactBeforeFuzzy ==
    /\ pc \in {"phase2", "phase3", "phase4", "partial2"} =>
          \A p \in 1..Len(pdf_data) :
              pdf_data[p].order_number \in KeySet(excel_data) =>
                  \E d \in Range(results.match_details) :
                      /\ d.pdf_file = pdf_data[p].index
                      /\ d.method = "exact_order"
    /\ pc \notin {"idle", "prepare_excel", "raised"} =>
          \A d \in Range(results.match_details) :
              d.method # "exact_order" =>
                  \A p \in 1..Len(pdf_data) :
                      pdf_data[p].order_number # d.excel_order

C3_Witness ==
    /\ pc = "done"
    /\ Len(pdf_data) = 2
    /\ pdf_data[1].order_number = OrdB
    /\ pdf_data[2].order_number = OrdA
    /\ KeySet(excel_data) = {OrdA}
    /\ Len(results.unmatched_pdf) = 1
    /\ results.unmatched_pdf[1].filename = pdf_data[1].index
    /\ \E d \in Range(results.match_details) :
          d.excel_order = OrdA /\ d.method = "exact_order"

\* C4: when a call returns, each aggregate is referenced by an accepted result
\* or listed in unmatched_excel, and never both.
C4_AggregatesPartitioned ==
    pc = "done" =>
        \A k \in KeySet(excel_data) :
            (\E r \in Range(accepted_results) : r.order_number = k)
            <=> ~(\E u \in Range(results.unmatched_excel) : u.order_number = k)

C4_Witness ==
    /\ pc = "done"
    /\ Len(excel_data) = 2
    /\ Len(accepted_results) = 1
    /\ Len(results.unmatched_excel) = 1

\* The call was made with a dataset that is empty or is not a list.
degenerate_input ==
    \/ pdf_in.kind # "list"
    \/ excel_in.kind # "list"
    \/ pdf_in.items = <<>>
    \/ excel_in.items = <<>>

\* C5: a call with an empty or non-list dataset does not raise, and what it
\* returns has empty matches, discrepancies and unmatched lists and a zeroed
\* summary.
C5_DegenerateInputReturnsEmpty ==
    degenerate_input =>
        /\ pc # "raised"
        /\ pc = "done" =>
              /\ results.matches = <<>>
              /\ results.discrepancies = <<>>
              /\ results.unmatched_pdf = <<>>
              /\ results.unmatched_excel = <<>>
              /\ results.summary.total_invoices = 0
              /\ results.summary.total_excel_orders = 0
              /\ results.summary.quality_assessment.score = RInt(0)

\* The positions of perform_reconciliation inside a matching loop.
PhasePcs == {"phase1", "phase2", "phase3", "phase4", "exact_only",
             "partial1", "partial2"}

\* C6: a failure while one invoice is evaluated in one phase is contained: no
\* step taken inside a matching loop ends the call with an exception.
C6_PhaseFailureContained ==
    [][(pc \in PhasePcs) => (pc' # "raised")]_vars

\* C7: a call whose two datasets are lists returns a result: it never ends
\* with an exception.
C7_ListInputsReturn ==
    (pdf_in.kind = "list" /\ excel_in.kind = "list") => pc # "raised"

\* The number of accepted results of a returned call found by `method`.
found_by(res, method) ==
    Cardinality({i \in 1..Len(res.match_details) :
                    res.match_details[i].method = method})

\* C8: every call that returns used the config a new engine would use for the
\* same config argument, and its method-performance figures count the results
\* of that call alone.
C8_RunsIndependent ==
    \A i \in 1..Len(history) :
        history[i].outcome = "returned" =>
            /\ history[i].config_used
                  = effective_config(DefaultConfig, history[i].override)
            /\ \A method \in DOMAIN history[i].results.summary.method_performance :
                  history[i].results.summary.method_performance[method].count
                     = found_by(history[i].results, method)

\* C9: two calls with the same invoices, lines and config argument end the
\* same way, with the same matches, discrepancies and unmatched invoices
\* (pairing, classification and confidence of every result).
C9_Deterministic ==
    \A i, j \in 1..Len(history) :
        (/\ history[i].pdf_in = history[j].pdf_in
         /\ history[i].excel_in = history[j].excel_in
         /\ history[i].override = history[j].override)
        => /\ history[i].outcome = history[j].outcome
           /\ history[i].results.matches = history[j].results.matches
           /\ history[i].results.discrepancies = history[j].results.discrepancies
           /\ history[i].results.unmatched_pdf = history[j].results.unmatched_pdf

\* Eligibility as documented: a positive net total and an order number or a
\* main reference.
documented_eligible(pdf) ==
    /\ parse_amount(pdf.total_net) > 0
    /\ \/ clean_order_number(pdf.purchase_order) # None
       \/ Truthy(pdf.main_reference)

\* C10: once the invoices are prepared, a successfully extracted record is
\* among the prepared invoices exactly when it is eligible as documented.
C10_EligibleIffAmountAndReference ==
    (pdf_in.kind = "list" /\ pc \notin {"idle", "raised"}) =>
        \A i \in 1..Len(pdf_in.items) :
            pdf_in.items[i].success =>
                (documented_eligible(pdf_in.items[i])
                 <=> \E p \in Range(pdf_data) : p.index = i - 1)

\* The accepted result of the exact phase for the invoice at position p.
exact_results_of(p) ==
    {r \in Range(accepted_results) :
        r.pdf_file = pdf_data[p].index /\ r.method = "exact_order"}

\* C11: when a call returns, every invoice whose order number is the key of
\* an aggregate has an exact_order result, whatever min_confidence is: a
\* perfect match of confidence 1 when the amount difference is at most
\* amount * tolerance, a discrepancy otherwise; one invoice and one aggregate
\* of the same order number and amount give 1 match, 0 discrepancies and a
\* matching rate of 100.
C11_ExactAlwaysAccepted ==
    pc = "done" =>
        /\ \A p \in 1..Len(pdf_data) :
              pdf_data[p].order_number \in KeySet(excel_data) =>
                  LET excel_order == Get(excel_data, pdf_data[p].order_number)
                      gap == Abs(pdf_data[p].amount - excel_order.total_amount)
                      tol == RMul(RInt(pdf_data[p].amount), config["tolerance"])
                  IN  /\ exact_results_of(p) # {}
                      /\ \A r \in exact_results_of(p) :
                            IF RLe(RInt(gap), tol)
                            THEN /\ r.type = "perfect_match"
                                 /\ r.confidence = RInt(1)
                                 /\ r \in Range(results.matches)
                            ELSE /\ r.type = "discrepancy"
                                 /\ r \in Range(results.discrepancies)
        /\ (/\ Len(pdf_data) = 1
            /\ Len(excel_data) = 1
            /\ pdf_data[1].order_number = excel_data[1].key
            /\ pdf_data[1].amount = excel_data[1].total_amount)
           => /\ Len(results.matches) = 1
              /\ Len(results.discrepancies) = 0
              /\ results.summary.matching_rate = RInt(100)

C11_Witness ==
    /\ pc = "done"
    /\ Len(pdf_data) = 1
    /\ Len(excel_data) = 1
    /\ pdf_data[1].order_number = excel_data[1].key
    /\ pdf_data[1].amount = excel_data[1].total_amount
    /\ Len(results.matches) = 1
    /\ results.matches[1].method = "exact_order"
    /\ results.summary.matching_rate = RInt(100)

\* C12: the confidence of an exact_order result is max(0.3, 1 - gap/amount)
\* when it is a discrepancy, so it is never below 0.3.
C12_ExactConfidenceFloor ==
    \A d \in Range(results.match_details) :
        d.method = "exact_order" =>
            /\ RLe(Rat(3, 10), d.confidence)
            /\ d.type = "discrepancy" =>
                  \E p \in 1..Len(pdf_data) :
                      /\ pdf_data[p].index = d.pdf_file
                      /\ d.confidence =
                            RMax(Rat(3, 10),
                                 RSub(RInt(1),
                                      Rat(Abs(pdf_data[p].amount
                                              - Get(excel_data, d.excel_order).total_amount),
                                          pdf_data[p].amount)))

\* C13: an exact_order result whose relative amount gap g is above the
\* tolerance and at most 0.7 is a discrepancy of confidence 1 - g and
\* difference_percent 100 * g; invoice 100 against aggregate 110 at the
\* tolerance of 1% gives exactly one discrepancy.
C13_ExactDiscrepancyConfidence ==
    pc = "done" =>
        /\ \A r \in Range(accepted_results) :
              r.method = "exact_order" =>
                  LET g == Rat(Abs(r.pdf_amount - r.excel_amount), r.pdf_amount)
                  IN  (RLt(config["tolerance"], g) /\ RLe(g, Rat(7, 10))) =>
                          /\ r.type = "discrepancy"
                          /\ r.confidence = round(RSub(RInt(1), g), 3)
                          /\ r.difference_percent = round(RMul(RInt(100), g), 2)
        /\ (/\ Len(pdf_data) = 1
            /\ Len(excel_data) = 1
            /\ pdf_data[1].order_number = excel_data[1].key
            /\ pdf_data[1].amount = 100
            /\ excel_data[1].total_amount = 110
            /\ config["tolerance"] = Rat(1, 100))
           => /\ results.matches = <<>>
              /\ Len(results.discrepancies) = 1
              /\ results.discrepancies[1].difference_percent = RInt(10)
              /\ results.discrepancies[1].confidence = Rat(9, 10)

C13_Witness ==
    /\ pc = "done"
    /\ config["tolerance"] = Rat(1, 100)
    /\ Len(results.discrepancies) = 1
    /\ results.discrepancies[1].method = "exact_order"
    /\ results.discrepancies[1].pdf_amount = 100
    /\ results.discrepancies[1].excel_amount = 105
    /\ results.discrepancies[1].confidence = Rat(95, 100)
    /\ results.discrepancies[1].difference_percent = RInt(5)

\* The config of the call asks for reference matching.
reference_matching_enabled ==
    /\ "enable_reference_matching" \in DOMAIN config
    /\ config["enable_reference_matching"]

\* The confidence documented for a pairing by reference.
reference_confidence(invoice_amount, aggregate_amount) ==
    RAdd(Rat(6, 10),
         RMul(Rat(4, 10), calculate_amount_confidence(invoice_amount, aggregate_amount)))

\* C14: with reference matching enabled, when a call returns, an invoice of
\* positive amount without order number whose main reference is a cost center
\* of an aggregate is paired with it by the reference_cross method, with
\* confidence 0.6 + 0.4 * amount confidence, when that is at least
\* min_confidence.
C14_ReferenceCross ==
    (pc = "done" /\ reference_matching_enabled) =>
        \A i \in 1..Len(pdf_in.items) :
            \A k \in 1..Len(excel_data) :
                LET pdf == pdf_in.items[i]
                    confidence ==
                        reference_confidence(parse_amount(pdf.total_net),
                                             excel_data[k].total_amount)
                IN  (/\ pdf.success
                     /\ clean_order_number(pdf.purchase_order) = None
                     /\ parse_amount(pdf.total_net) > 0
                     /\ InSeq(pdf.main_reference, excel_data[k].cost_centers)
                     /\ RLe(config["min_confidence"], confidence))
                    => \E r \in Range(accepted_results) :
                          /\ r.pdf_file = i - 1
                          /\ r.order_number = excel_data[k].order_number
                          /\ r.method = "reference_cross"
                          /\ r.confidence = round(confidence, 3)

\* The methods of the four documented phases, in their order.
DocumentedMethods == <<"exact_order", "reference_cross", "partial_order", "amount_fuzzy">>

\* C15: when an intelligent call returns, every accepted result was found by
\* one of the methods exact_order, reference_cross, partial_order and
\* amount_fuzzy, and every other eligible invoice is in unmatched_pdf.
C15_FourPhases ==
    (pc = "done" /\ matching_function(config) = "intelligent_reconciliation") =>
        /\ \A r \in Range(accepted_results) : r.method \in Range(DocumentedMethods)
        /\ \A p \in 1..Len(pdf_data) :
              (\A r \in Range(accepted_results) : r.pdf_file # pdf_data[p].index)
              => \E u \in Range(results.unmatched_pdf) :
                    u.filename = pdf_data[p].index

\* C16: no result found by the amount_fuzzy method has a confidence below
\* 0.8, whatever min_confidence is.
C16_AmountFuzzyBar ==
    \A d \in Range(results.match_details) :
        d.method = "amount_fuzzy" => RLe(Rat(8, 10), d.confidence)

\* The factor of the window of the amount phase the config asks for.
configured_factor ==
    IF "extended_tolerance_factor" \in DOMAIN config
    THEN config["extended_tolerance_factor"] ELSE 5

\* The amount is within invoice amount * tolerance * configured factor.
in_configured_window(invoice_amount, aggregate_amount) ==
    RLe(RInt(Abs(invoice_amount - aggregate_amount)),
        RMul(RInt(invoice_amount),
             RMul(config["tolerance"], RInt(configured_factor))))

\* C17: the amount phase considers an aggregate only within the window
\* invoice amount * tolerance * extended_tolerance_factor of the config: an
\* amount_fuzzy result pairs amounts within it, and an invoice with an
\* amount_fuzzy attempt has an aggregate within it.
C17_ConfiguredWindow ==
    /\ \A r \in Range(accepted_results) :
          r.method = "amount_fuzzy" => in_configured_window(r.pdf_amount, r.excel_amount)
    /\ \A p \in 1..Len(pdf_data) :
          (\E a \in Range(pdf_data[p].match_attempts) : a[1] = "amount_fuzzy") =>
              \E k \in 1..Len(excel_data) :
                  in_configured_window(pdf_data[p].amount, excel_data[k].total_amount)

\* C18: a direct call calculate_amount_confidence(a, b) returns 1 when both
\* amounts are zero, 0 when exactly one is zero, and otherwise
\* max(0, 1 - 2 * |a - b| / max(a, b)); the value is within [0, 1] and is the
\* one of the call with the arguments exchanged.
C18_AmountConfidence ==
    amount_confidence # <<>> =>
        LET c == amount_confidence[1]
            larger == IF amount1 >= amount2 THEN amount1 ELSE amount2
        IN  /\ (amount1 = 0 /\ amount2 = 0) => c = RInt(1)
            /\ (amount1 = 0) # (amount2 = 0) => c = RInt(0)
            /\ (amount1 # 0 /\ amount2 # 0) =>
                  c = RMax(RInt(0),
                           RSub(RInt(1),
                                RMul(RInt(2), Rat(Abs(amount1 - amount2), larger))))
            /\ RLe(RInt(0), c)
            /\ RLe(c, RInt(1))
            /\ c = calculate_amount_confidence(amount2, amount1)

C18_Witness ==
    /\ amount_confidence = <<Rat(1, 2)>>
    /\ amount1 = 30
    /\ amount2 = 40

\* C19 as stated: the direct calls (100, 100), (100, 0) and (100, 150) return
\* 1, 0 and 0.
C19_Stated ==
    (amount_confidence # <<>> /\ amount1 = 100) =>
        /\ amount2 = 100 => amount_confidence[1] = RInt(1)
        /\ amount2 = 0 => amount_confidence[1] = RInt(0)
        /\ amount2 = 150 => amount_confidence[1] = RInt(0)

\* C19, amended: the direct calls (100, 100), (100, 0) and (100, 150) return
\* 1, 0 and 1/3; for two positive amounts the value is 0 exactly when the gap
\* is at least 50% of the larger amount, as for (100, 200).
C19_HalfOfLarger ==
    amount_confidence # <<>> =>
        /\ amount1 = 100 =>
              /\ amount2 = 100 => amount_confidence[1] = RInt(1)
              /\ amount2 = 0 => amount_confidence[1] = RInt(0)
              /\ amount2 = 150 => amount_confidence[1] = Rat(1, 3)
        /\ (amount1 > 0 /\ amount2 > 0) =>
              (amount_confidence[1] = RInt(0)
               <=> 2 * Abs(amount1 - amount2)
                      >= (IF amount1 >= amount2 THEN amount1 ELSE amount2))

C19_Witness ==
    /\ amount1 = 100
    /\ amount2 = 150
    /\ amount_confidence = <<Rat(1, 3)>>

\* C20: in the quality assessment a call returns, the grade follows the score
\* reported with it: A from 90, B from 80, C from 70, D from 60, F below.
C20_GradeFollowsScore ==
    pc = "done" =>
        LET score == results.summary.quality_assessment.score
            grade == results.summary.quality_assessment.grade
        IN  /\ grade = "A" <=> RLe(RInt(90), score)
            /\ grade = "B" <=> (RLe(RInt(80), score) /\ RLt(score, RInt(90)))
            /\ grade = "C" <=> (RLe(RInt(70), score) /\ RLt(score, RInt(80)))
            /\ grade = "D" <=> (RLe(RInt(60), score) /\ RLt(score, RInt(70)))
            /\ grade = "F" <=> RLt(score, RInt(60))

\* The matching rates the score is compared over.
MatchingRates ==
    {RInt(0), RInt(25), Rat(100, 3), RInt(50), Rat(200, 3), RInt(75), RInt(100)}

\* C21: with the coverage rate, the discrepancy band and the average
\* confidence of a returned run held fixed, the quality score does not decrease
\* when the matching rate increases, and the score of the run lies in [0, 100].
C21_ScoreMonotoneInMatchingRate ==
    pc = "done" =>
        LET total_pdfs == results.metadata.performance_stats.total_pdfs
            matching_rate == rate(Len(results.matches), total_pdfs)
            coverage_rate ==
                rate(Len(results.matches) + Len(results.discrepancies), total_pdfs)
            score == quality_score(matching_rate, coverage_rate, results, pdf_data)
        IN  /\ \A m1, m2 \in MatchingRates :
                  RLe(m1, m2) =>
                      RLe(quality_score(m1, coverage_rate, results, pdf_data),
                          quality_score(m2, coverage_rate, results, pdf_data))
            /\ RLe(RInt(0), score)
            /\ RLe(score, RInt(100))
            /\ RLe(RInt(0), results.summary.quality_assessment.score)
            /\ RLe(results.summary.quality_assessment.score, RInt(100))

C21_Witness ==
    /\ pc = "done"
    /\ results.metadata.performance_stats.total_pdfs = 2
    /\ Len(results.matches) = 1
    /\ Len(results.discrepancies) = 1
    /\ results.summary.matching_rate = RInt(50)
    /\ RLt(RInt(0), results.summary.quality_assessment.score)

\* normalizeOrderNumber as documented: a trailing ".0" is stripped, every
\* non-digit is removed, and the digits are returned when there are 8 to 12 of
\* them, null otherwise.
normalizeOrderNumber(text) ==
    LET stripped ==
            IF endswith(text, <<".", "0">>) THEN SubSeq(text, 1, Len(text) - 2)
            ELSE text
        digits == KeepDigits(stripped)
    IN  IF 8 <= Len(digits) /\ Len(digits) <= 12 THEN digits ELSE None

\* C22: order-number normalization strips a trailing ".0", removes every
\* non-digit and returns the digits only when there are 8 to 12 of them, null
\* otherwise: "5600002101.0" gives "5600002101" and "abc" gives null.
C22_OrderNumberNormalization ==
    \A i \in DOMAIN normalized :
        normalized[i].function \in {"clean_order_number", "normalize_order_number"}
            => normalized[i].value = normalizeOrderNumber(raw)

\* normalizeAmount as documented: with ',' and '.' both present the later one
\* is the decimal separator and the other is stripped; a lone ',' is the decimal
\* separator when at most 2 digits follow it and is stripped otherwise.
normalizeAmount(text) ==
    LET cleaned == KeepChars(text, Digits \cup {",", ".", "-"})
        comma == rfind(cleaned, ",")
        point == rfind(cleaned, ".")
        written ==
            IF comma > 0 /\ point > 0
            THEN IF comma > point
                 THEN replace(replace(cleaned, ".", <<>>), ",", <<".">>)
                 ELSE replace(cleaned, ",", <<>>)
            ELSE IF comma > 0
                 THEN IF Len(cleaned) - comma <= 2
                      THEN replace(cleaned, ",", <<".">>)
                      ELSE replace(cleaned, ",", <<>>)
                 ELSE cleaned
    IN  IF float_accepts(written) THEN float(written) ELSE RInt(0)

\* C23: the amount normalization used when preparing invoices and lines takes,
\* with ',' and '.' both present, the later one as the decimal separator
\* ("1.234,56" and "1,234.56" give 1234.56, "9.84" gives 9.84), and takes a lone
\* ',' as the decimal separator when at most 2 digits follow it, as a thousands
\* separator otherwise.
C23_AmountNormalization ==
    \A i \in DOMAIN normalized :
        normalized[i].function
                \in {"parse_amount", "PDFExtractor.parse_amount", "clean_amount_column"}
            => normalized[i].value = normalizeAmount(raw)

\* The valid lines of the call whose order number normalizes to `order`.
lines_of(order) ==
    {i \in 1..Len(excel_in.items) :
        /\ excel_in.items[i].is_valid
        /\ Truthy(excel_in.items[i].order_number)
        /\ clean_order_number(excel_in.items[i].order_number) = order}

\* C24: once the lines of a call are aggregated there is exactly one aggregate
\* per distinct normalized order number of the valid lines, its total amount
\* and line count being the sums over all the valid lines that normalize to
\* that number, however the lines write it.
C24_OneAggregatePerNormalizedOrder ==
    (pdf_in.kind = "list" /\ excel_in.kind = "list"
        /\ pc \notin {"idle", "prepare_excel"}) =>
        \A i \in 1..Len(excel_in.items) :
            LET order == clean_order_number(excel_in.items[i].order_number)
                found == {k \in 1..Len(excel_data) : excel_data[k].key = order}
            IN  (lines_of(order) # {} /\ order # None) =>
                    /\ Cardinality(found) = 1
                    /\ \A k \in found :
                          /\ excel_data[k].line_count = Cardinality(lines_of(order))
                          /\ excel_data[k].total_amount =
                                SumSeq([j \in 1..Len(excel_in.items) |->
                                           IF j \in lines_of(order)
                                           THEN excel_in.items[j].net_amount
                                           ELSE 0], 1)

\* The call was configured by the page with the strategy `matching_method`.
page_strategy(matching_method) ==
    /\ "extended_tolerance_factor" \in DOMAIN override
    /\ override["method"] = page_method(matching_method)

\* C25: a run the page starts with 'Exact uniquement' accepts results of the
\* exact phase only, and one started with 'Partiel + Exact' results of the exact
\* and partial phases only: no result of such a run has the method amount_fuzzy
\* or supplier_date.
C25_StrategyRestrictsPhases ==
    pc = "done" =>
        \A i \in 1..Len(results.match_details) :
            LET method == results.match_details[i].method
            IN  /\ page_strategy("Exact uniquement") =>
                      method \in {"exact_order", "reference_cross"}
                /\ page_strategy("Partiel + Exact") =>
                      method \in {"exact_order", "reference_cross", "partial_order"}
                /\ (page_strategy("Exact uniquement") \/ page_strategy("Partiel + Exact"))
                      => method \notin {"amount_fuzzy", "supplier_date"}

\* C26: after the exact phase the candidates of an invoice, the orders still
\* in results['unmatched_excel'], never include an aggregate accepted for
\* another invoice: the aggregate left the pool when it was accepted, so no
\* result of a later phase takes an aggregate an earlier result holds.
C26_AcceptedAggregateLeavesPool ==
    /\ pc \in {"phase2", "phase3", "phase4", "partial2"} =>
          \A d \in Range(results.match_details) :
              ~InSeq(d.excel_order, results.unmatched_excel)
    /\ pc \notin {"idle", "prepare_excel", "raised"} =>
          \A i \in 1..Len(results.match_details) :
              results.match_details[i].method # "exact_order" =>
                  \A j \in 1..(i - 1) :
                      results.match_details[j].excel_order
                          # results.match_details[i].excel_order

C26_Witness ==
    /\ pc = "phase2"
    /\ Len(queue) = 2
    /\ cur = 2
    /\ Len(excel_data) = 2
    /\ Len(results.match_details) = 1
    /\ results.match_details[1].method = "partial_order"
    /\ Len(results.unmatched_excel) = 1

\* 0.6 x similarity + 0.4 x amountConfidence of an invoice and the aggregate
\* keyed `key`.
combined_confidence(pdf, key) ==
    RAdd(RMul(calculate_string_similarity(str(pdf.order_number), str(key)),
              Rat(6, 10)),
         RMul(calculate_amount_confidence(pdf.amount, Get(excel_data, key).total_amount),
              Rat(4, 10)))

passes_threshold(pdf, key) ==
    RLe(config["fuzzy_threshold"],
        calculate_string_similarity(str(pdf.order_number), str(key)))

\* A step of a partial phase that accepts a result for the invoice it tries.
partial_accepts ==
    /\ pc \in {"phase2", "partial2"}
    /\ Len(results'.match_details) = Len(results.match_details) + 1

within_base_tolerance(result) ==
    RLe(RInt(Abs(result.pdf_amount - result.excel_amount)),
        RMul(RInt(result.pdf_amount), config["tolerance"]))

\* C28: whatever phase accepted it, a result is in matches exactly when its
\* amount difference is at most the invoice's amount times the base tolerance
\* and in discrepancies exactly when it exceeds it, and every accepted pairing
\* is in one of the two lists.
C28_MatchesIffWithinTolerance ==
    pc \notin {"idle", "prepare_excel"} =>
        /\ \A i \in 1..Len(results.matches) :
              /\ within_base_tolerance(results.matches[i])
              /\ results.matches[i].type = "perfect_match"
        /\ \A i \in 1..Len(results.discrepancies) :
              /\ ~within_base_tolerance(results.discrepancies[i])
              /\ results.discrepancies[i].type = "discrepancy"
        /\ Len(results.match_details)
              = Len(results.matches) + Len(results.discrepancies)
        /\ \A d \in Range(results.match_details) :
              \E r \in Range(results.matches) \cup Range(results.discrepancies) :
                  /\ r.pdf_file = d.pdf_file
                  /\ r.order_number = d.excel_order
                  /\ r.method = d.method
                  /\ r.pdf_amount = pdf_data[CHOOSE p \in 1..Len(pdf_data) :
                                                 pdf_data[p].index = d.pdf_file].amount
                  /\ r.excel_amount = Get(excel_data, d.excel_order).total_amount

C28_Witness ==
    /\ pc = "done"
    /\ config["tolerance"] = Rat(1, 100)
    /\ results.matches = <<>>
    /\ Len(results.discrepancies) = 1
    /\ results.discrepancies[1].method \in {"amount_fuzzy", "supplier_date"}
    /\ results.discrepancies[1].pdf_amount = 100
    /\ results.discrepancies[1].excel_amount = 102

\* The confidence the matcher of `method` gives the invoice against the
\* aggregate keyed `key` alone: <<c>>, or <<>> when the aggregate does not
\* qualify.
candidate_confidence(pdf, key, method) ==
    LET m == CASE method = "partial_order" ->
                     try_partial_match(pdf, excel_data, <<key>>, config)
               [] method = "amount_fuzzy" ->
                     try_amount_fuzzy_match(pdf, excel_data, <<key>>, config)
               [] OTHER ->
                     try_contextual_match(pdf, excel_data, <<key>>, config)
    IN  IF m.kind = "match" THEN <<m.confidence>> ELSE <<>>

\* The position of the first valid line whose order number normalizes as
\* `key` does, 0 when there is none.
first_appearance(key) ==
    LET same == {i \in 1..Len(excel_in.items) :
                    /\ excel_in.items[i].is_valid
                    /\ Truthy(excel_in.items[i].order_number)
                    /\ clean_order_number(excel_in.items[i].order_number)
                          = clean_order_number(key)}
    IN  IF same = {} THEN 0 ELSE CHOOSE i \in same : \A j \in same : i <= j

\* A step of the partial, amount or contextual phase that accepts a result.
later_phase_accepts ==
    /\ pc \in {"phase2", "partial2", "phase3", "phase4"}
    /\ Len(results'.match_details) = Len(results.match_details) + 1

\* C29: in the partial, amount and contextual phases, when several remaining
\* aggregates reach the same highest confidence for an invoice, the one
\* selected is the first of them in the order of the pool, which is the order
\* in which the order numbers first appear in the lines.
C29_TiesToFirstInLines ==
    [][later_phase_accepts =>
          LET pdf == pdf_data[queue[cur]]
              detail == results'.match_details[Len(results'.match_details)]
              pool == results.unmatched_excel
              chosen == CHOOSE k \in 1..Len(pool) : pool[k] = detail.excel_order
          IN  \A k \in 1..Len(pool) :
                  LET c == candidate_confidence(pdf, pool[k], detail.method)
                  IN  c # <<>> =>
                          /\ RLe(c[1], detail.confidence)
                          /\ (c[1] = detail.confidence /\ k # chosen) =>
                                /\ chosen < k
                                /\ first_appearance(detail.excel_order)
                                      < first_appearance(pool[k])]_vars

\* The tolerances the slider of the page offers: 0% to 10%.
page_tolerance ==
    /\ "extended_tolerance_factor" \in DOMAIN override
    /\ RLe(RInt(0), override["tolerance"])
    /\ RLe(override["tolerance"], Rat(10, 100))

\* C30: a run configured by the page, with any tolerance from 0% to 10%, 0
\* included, completes and returns; in particular the amount phase with
\* tolerance 0 and a remaining aggregate whose amount equals the invoice's ends
\* without an error.
C30_PageToleranceReturns ==
    /\ (page_tolerance /\ pdf_in.kind = "list" /\ excel_in.kind = "list")
          => pc # "raised"
    /\ (pc = "phase3" /\ cur <= Len(queue) /\ config["tolerance"] = RInt(0)) =>
          LET pdf == pdf_data[queue[cur]]
              pool == results.unmatched_excel
          IN  (\E k \in 1..Len(pool) :
                  Get(excel_data, pool[k]).total_amount = pdf.amount)
                  => try_amount_fuzzy_match(pdf, excel_data, pool, config).kind
                        # "error"

====
